---- MODULE Spec2Model ----
(***************************************************************************)
(* Shared-memory transport between a display server and a frameserver      *)
(* client (arcan shmif): the two per-direction event queues of the shared  *)
(* page, the poll / wait / enqueue / tryenqueue operations on them, the    *)
(* video gate of the libretro frameserver and the lifecycle of the         *)
(* connection.                                                             *)
(*                                                                         *)
(* arcan_shmif_poll, _wait, _enqueue and _tryenqueue are modelled from     *)
(* their declarations and documented return values                         *)
(* (arcan_shmif_interop.h) and from the design description of the queue.   *)
(* The binding of the client's inbound / outbound queue views, the event   *)
(* flush loop and the video and audio callbacks are modelled from          *)
(* arcan_frameserver_libretro.c, the server's buffer handling from         *)
(* tests/core/shmifsrv/shmifsrv.c.                                         *)
(*                                                                         *)
(* Further specifications over the same page: SpecSrv (the main loop of    *)
(* the shmifsrv test server and its answers to REGISTER and SEGREQ),       *)
(* SpecAttach (the cookie comparison of an attach), SpecAudio (the audio   *)
(* buffer and libretro_audcb, byte by byte), SpecVideo (the libretro       *)
(* main loop, libretro_vidcb and the resize of the page's geometry),       *)
(* SpecAcquire (arcan_shmif_acquireloop and the pairing of descriptors),   *)
(* SpecExt, SpecCtx and SpecNopass (the extended GPU context of            *)
(* egl-dri-rnode.c), SpecLife (the lifecycle of a connection), SpecPixel   *)
(* (the pixel conversion of libretro_vidcb), SpecHandoff (the handoff of   *)
(* a video frame) and, for the screen of the terminal emulator             *)
(* (shmif/tui/tsm_screen.c), SpecGeom (size, margins and cursor),          *)
(* SpecScrollback and SpecSbRefs (the scrollback list, the view position   *)
(* and the selection) and SpecAge (the age counter and tsm_screen_draw).   *)
(***************************************************************************)
EXTENDS Integers, Sequences, FiniteSets, TLC

(***************************************************************************)
(* Bounds of the model.                                                    *)
(***************************************************************************)
\* number of event records in one subqueue array (n_eventbuf)
n_eventbuf == 3
\* number of enqueue calls that insert, explored over both directions
MaxEnq == 3

(***************************************************************************)
(* The two peers and the two subqueues of the shared page.                 *)
(***************************************************************************)
Sides == {"client", "server"}

Peer(s) == IF s = "client" THEN "server" ELSE "client"

Queues == {"childdevq", "parentdevq"}

\* the marker for "no event" in an empty slot or an empty destination
NoEvent == [category |-> "NONE", kind |-> "NONE"]

\* event values the peers exchange
Events ==
  { [category |-> "EVENT_IO", kind |-> "DIGITAL"],
    [category |-> "EVENT_EXTERNAL", kind |-> "REGISTER"] }

VARIABLES
  evqueue,   \* evqueue[q][i]: the event record in slot i of subqueue q
  front,     \* front[q]: index of the oldest undequeued record of q
  back,      \* back[q]: index of the next free slot of q
  cstate,    \* lifecycle state of the connection
  vready,    \* the page's video-ready flag
  asem,      \* the audio semaphore: 1 free, 0 held
  pc,        \* pc[s]: where the flow of control of side s is
  pend,      \* pend[s]: the event of the enqueue side s is blocked in
  last,      \* the operation that was completed or begun by the last step
  sent,      \* sent[s]: events side s has inserted so far, in order
  recv,      \* recv[s]: events side s has dequeued so far, in order
  att,       \* the attach of a client to a shared region and its outcome
  aud,       \* the audio buffer of the page and the audio callback's locals
  vid,       \* the geometry and video fields of the page and their reader
  srv,       \* the main loop of the shmifsrv test server
  acq,       \* a segment request waiting for its reply, and its backlog
  ext,       \* the extended (GPU) context of a connection
  life,      \* the lifecycle state machine of one connection
  pix,       \* one frame on its way through the video callback's pixel loop
  scr        \* the screen of the terminal emulator

vars ==
  <<evqueue, front, back, cstate, vready, asem, pc, pend, last, sent, recv,
    att, aud, vid, srv, acq, ext, life, pix, scr>>

qvars == <<evqueue, front, back, sent, recv>>

\* the variables of the queue transport
tvars == <<evqueue, front, back, cstate, vready, asem, pc, pend, last, sent, recv>>

\* the variables the queue transport leaves alone
xvars == <<att, aud, vid, srv, acq, ext, life, pix, scr>>

\* the value of a part of the state that a specification does not exercise
NotInUse == "not in use"

(***************************************************************************)
(* Queue views of each side.  The client maps its inbound context to the   *)
(* page's childdevq and its outbound context to parentdevq; the server     *)
(* holds the mirrored views.                                               *)
(***************************************************************************)
\* faulty variant: the client's inbound view bound to the queue it writes
inevq_samequeue(s) == "parentdevq"

inevq(s) == IF s = "client" THEN "childdevq" ELSE "parentdevq"

\* faulty variant: the client's outbound view bound to the queue it reads
outevq_samequeue(s) == "childdevq"

outevq(s) == IF s = "client" THEN "parentdevq" ELSE "childdevq"

(***************************************************************************)
(* Ring arithmetic on one subqueue.  front = back means empty, so one slot *)
(* of the array always stays free and the queue holds n_eventbuf - 1       *)
(* records at most.                                                        *)
(***************************************************************************)
QCap == n_eventbuf - 1

Slot(i) == i % n_eventbuf

Used(q) == (back[q] + n_eventbuf - front[q]) % n_eventbuf

IsEmpty(q) == front[q] = back[q]

\* faulty variant: the full test without the wrap of the index
IsFull_nowrap(q) == back[q] + 1 = front[q]

IsFull(q) == Slot(back[q] + 1) = front[q]

\* the records of q from the oldest to the newest
RECURSIVE Collect(_, _, _)
Collect(q, i, n) ==
  IF n = 0 THEN <<>> ELSE <<evqueue[q][i]>> \o Collect(q, Slot(i + 1), n - 1)

Content(q) == Collect(q, front[q], Used(q))

IsDead == cstate = "DEAD"

\* what a step did: the side, the operation, its return value, the event
\* passed or returned, and the lossless flag of an enqueue
DoneL(s, o, r, e, l) == [side |-> s, op |-> o, rv |-> r, ev |-> e, lossless |-> l]

Done(s, o, r, e) == DoneL(s, o, r, e, FALSE)

(***************************************************************************)
(* Insertion and removal of one record.                                    *)
(***************************************************************************)
Insert(s, e) ==
  /\ evqueue' = [evqueue EXCEPT ![outevq(s)][back[outevq(s)]] = e]
  /\ back' = [back EXCEPT ![outevq(s)] = Slot(back[outevq(s)] + 1)]
  /\ sent' = [sent EXCEPT ![s] = Append(sent[s], e)]
  /\ UNCHANGED <<front, recv>>

\* the oldest undequeued record of the queue side s reads
Oldest(s) == evqueue[inevq(s)][front[inevq(s)]]

Remove(s) ==
  /\ front' = [front EXCEPT ![inevq(s)] = Slot(front[inevq(s)] + 1)]
  /\ recv' = [recv EXCEPT ![s] = Append(recv[s], Oldest(s))]
  /\ UNCHANGED <<evqueue, back, sent>>

\* the model explores a bounded number of insertions
MayEnqueue == Len(sent["client"]) + Len(sent["server"]) < MaxEnq

\* free slots left once one more record is in q
FreeAfterInsert(q) == QCap - (Used(q) + 1)

(***************************************************************************)
(* Initial state: an attached, live connection with both subqueues empty.  *)
(***************************************************************************)
TransportInit ==
  /\ evqueue = [q \in Queues |-> [i \in 0..(n_eventbuf - 1) |-> NoEvent]]
  /\ front = [q \in Queues |-> 0]
  /\ back = [q \in Queues |-> 0]
  /\ cstate = "ACTIVE"
  /\ vready = FALSE
  /\ asem = 1
  /\ pc = [s \in Sides |-> "idle"]
  /\ pend = [s \in Sides |-> NoEvent]
  /\ last = Done("client", "attach", 0, NoEvent)
  /\ sent = [s \in Sides |-> <<>>]
  /\ recv = [s \in Sides |-> <<>>]

Init ==
  /\ TransportInit
  /\ att = NotInUse
  /\ aud = NotInUse
  /\ vid = NotInUse
  /\ srv = NotInUse
  /\ acq = NotInUse
  /\ ext = NotInUse
  /\ life = NotInUse
  /\ pix = NotInUse
  /\ scr = NotInUse

(***************************************************************************)
(* arcan_shmif_poll: returns as soon as possible, > 0 with the oldest      *)
(* record in the destination, 0 when there is none, < 0 in the terminal    *)
(* state.                                                                  *)
(***************************************************************************)
arcan_shmif_poll(s) ==
  /\ UNCHANGED xvars
  /\ pc[s] = "idle"
  /\ UNCHANGED <<cstate, vready, asem, pc, pend>>
  /\ IF IsDead
       THEN /\ last' = Done(s, "poll", -1, NoEvent)
            /\ UNCHANGED qvars
       ELSE IF IsEmpty(inevq(s))
         THEN /\ last' = Done(s, "poll", 0, NoEvent)
              /\ UNCHANGED qvars
         ELSE /\ last' = Done(s, "poll", 1, Oldest(s))
              /\ Remove(s)

(***************************************************************************)
(* arcan_shmif_wait: blocks until a record can be dequeued or the          *)
(* connection is terminal; !0 with the record in the destination, 0 in the *)
(* terminal state.  The call and its return are two steps: between them    *)
(* the caller is blocked on the event semaphore.                           *)
(***************************************************************************)
arcan_shmif_wait(s) ==
  /\ UNCHANGED xvars
  /\ pc[s] = "idle"
  /\ UNCHANGED <<cstate, vready, asem, pend>>
  /\ IF IsDead
       THEN /\ last' = Done(s, "wait", 0, NoEvent)
            /\ UNCHANGED <<qvars, pc>>
       ELSE IF ~IsEmpty(inevq(s))
         THEN /\ last' = Done(s, "wait", 1, Oldest(s))
              /\ Remove(s)
              /\ UNCHANGED pc
         ELSE /\ last' = Done(s, "wait_call", 0, NoEvent)
              /\ pc' = [pc EXCEPT ![s] = "wait"]
              /\ UNCHANGED qvars

\* faulty variant: the blocked wait gives up and returns 0 with nothing dequeued
wait_return_giveup(s) ==
  /\ UNCHANGED xvars
  /\ pc[s] = "wait"
  /\ pc' = [pc EXCEPT ![s] = "idle"]
  /\ UNCHANGED <<cstate, vready, asem, pend>>
  /\ IF IsDead \/ IsEmpty(inevq(s))
       THEN /\ last' = Done(s, "wait_return", 0, NoEvent)
            /\ UNCHANGED qvars
       ELSE /\ last' = Done(s, "wait_return", 1, Oldest(s))
            /\ Remove(s)

\* the blocked wait goes on once a record is there or the connection is
\* terminal
wait_return(s) ==
  /\ UNCHANGED xvars
  /\ pc[s] = "wait"
  /\ IsDead \/ ~IsEmpty(inevq(s))
  /\ pc' = [pc EXCEPT ![s] = "idle"]
  /\ UNCHANGED <<cstate, vready, asem, pend>>
  /\ IF IsDead
       THEN /\ last' = Done(s, "wait_return", 0, NoEvent)
            /\ UNCHANGED qvars
       ELSE /\ last' = Done(s, "wait_return", 1, Oldest(s))
            /\ Remove(s)

(***************************************************************************)
(* arcan_shmif_enqueue: writes at back, advances it and returns the number *)
(* of free slots left, or a negative value on failure.  On a full queue a  *)
(* lossless caller blocks until space frees, any other caller fails at     *)
(* once and the event is not inserted.                                     *)
(***************************************************************************)
arcan_shmif_enqueue(s, e, lossless) ==
  /\ UNCHANGED xvars
  /\ pc[s] = "idle"
  /\ MayEnqueue
  /\ UNCHANGED <<cstate, vready, asem>>
  /\ IF IsDead
       THEN /\ last' = DoneL(s, "enqueue", -1, e, lossless)
            /\ UNCHANGED <<qvars, pc, pend>>
       ELSE IF ~IsFull(outevq(s))
         THEN /\ last' = DoneL(s, "enqueue", FreeAfterInsert(outevq(s)), e, lossless)
              /\ Insert(s, e)
              /\ UNCHANGED <<pc, pend>>
         ELSE IF ~lossless
           THEN /\ last' = DoneL(s, "enqueue", -1, e, lossless)
                /\ UNCHANGED <<qvars, pc, pend>>
           ELSE /\ last' = DoneL(s, "enqueue_call", 0, e, lossless)
                /\ pc' = [pc EXCEPT ![s] = "enq"]
                /\ pend' = [pend EXCEPT ![s] = e]
                /\ UNCHANGED qvars

\* faulty variant: the blocked enqueue waits for an empty queue, not for a free slot
enqueue_resume_needempty(s) ==
  /\ UNCHANGED xvars
  /\ pc[s] = "enq"
  /\ IsDead \/ IsEmpty(outevq(s))
  /\ pc' = [pc EXCEPT ![s] = "idle"]
  /\ pend' = [pend EXCEPT ![s] = NoEvent]
  /\ UNCHANGED <<cstate, vready, asem>>
  /\ IF IsDead
       THEN /\ last' = DoneL(s, "enqueue_resume", -1, pend[s], TRUE)
            /\ UNCHANGED qvars
       ELSE /\ last' = DoneL(s, "enqueue_resume",
                             FreeAfterInsert(outevq(s)), pend[s], TRUE)
            /\ Insert(s, pend[s])

\* the blocked lossless enqueue goes on once a slot is free or the
\* connection is terminal
enqueue_resume(s) ==
  /\ UNCHANGED xvars
  /\ pc[s] = "enq"
  /\ IsDead \/ ~IsFull(outevq(s))
  /\ pc' = [pc EXCEPT ![s] = "idle"]
  /\ pend' = [pend EXCEPT ![s] = NoEvent]
  /\ UNCHANGED <<cstate, vready, asem>>
  /\ IF IsDead
       THEN /\ last' = DoneL(s, "enqueue_resume", -1, pend[s], TRUE)
            /\ UNCHANGED qvars
       ELSE /\ last' = DoneL(s, "enqueue_resume",
                             FreeAfterInsert(outevq(s)), pend[s], TRUE)
            /\ Insert(s, pend[s])

(***************************************************************************)
(* arcan_shmif_tryenqueue: never blocks; checks for room first and gives   *)
(* up when there is none.                                                  *)
(***************************************************************************)
\* faulty variant: the room check compares against the array size
tryenqueue_arraysize(s, e) ==
  /\ UNCHANGED xvars
  /\ pc[s] = "idle"
  /\ MayEnqueue
  /\ UNCHANGED <<cstate, vready, asem, pc, pend>>
  /\ IF IsDead \/ Used(outevq(s)) >= n_eventbuf
       THEN /\ last' = Done(s, "tryenqueue", -1, e)
            /\ UNCHANGED qvars
       ELSE /\ last' = Done(s, "tryenqueue", QCap - Used(outevq(s)) - 1, e)
            /\ Insert(s, e)

\* faulty variant: no check of the terminal state before the insertion
tryenqueue_nodeadcheck(s, e) ==
  /\ UNCHANGED xvars
  /\ pc[s] = "idle"
  /\ MayEnqueue
  /\ UNCHANGED <<cstate, vready, asem, pc, pend>>
  /\ IF Used(outevq(s)) >= QCap
       THEN /\ last' = Done(s, "tryenqueue", -1, e)
            /\ UNCHANGED qvars
       ELSE /\ last' = Done(s, "tryenqueue", QCap - Used(outevq(s)) - 1, e)
            /\ Insert(s, e)

arcan_shmif_tryenqueue(s, e) ==
  /\ UNCHANGED xvars
  /\ pc[s] = "idle"
  /\ MayEnqueue
  /\ UNCHANGED <<cstate, vready, asem, pc, pend>>
  /\ IF IsDead \/ Used(outevq(s)) >= QCap
       THEN /\ last' = Done(s, "tryenqueue", -1, e)
            /\ UNCHANGED qvars
       ELSE /\ last' = Done(s, "tryenqueue", QCap - Used(outevq(s)) - 1, e)
            /\ Insert(s, e)

(***************************************************************************)
(* arcan_shmif_drop: a local call that ends the connection for both peers. *)
(***************************************************************************)
arcan_shmif_drop(s) ==
  /\ UNCHANGED xvars
  /\ pc[s] = "idle"
  /\ ~IsDead
  /\ cstate' = "DEAD"
  /\ last' = Done(s, "drop", 0, NoEvent)
  /\ UNCHANGED <<qvars, vready, asem, pc, pend>>

(***************************************************************************)
(* frameserver_semcheck as the libretro frameserver uses it: the caller    *)
(* stays blocked on the semaphore until the peer releases it; when the     *)
(* connection has died instead, the check ends the client process.         *)
(***************************************************************************)
semcheck_return(s, released) ==
  /\ UNCHANGED xvars
  /\ released \/ IsDead
  /\ pc' = [pc EXCEPT ![s] = IF IsDead THEN "exit" ELSE "idle"]
  /\ last' = Done(s, "semcheck", IF IsDead THEN -1 ELSE 0, NoEvent)

(***************************************************************************)
(* flush_eventq of the libretro frameserver: polls the inbound queue until *)
(* the poll comes back empty.                                              *)
(***************************************************************************)
flush_eventq ==
  /\ UNCHANGED xvars
  /\ pc["client"] = "idle"
  /\ pc' = [pc EXCEPT !["client"] = "flush"]
  /\ last' = Done("client", "flush_call", 0, NoEvent)
  /\ UNCHANGED <<qvars, cstate, vready, asem, pend>>

flush_eventq_poll ==
  /\ UNCHANGED xvars
  /\ pc["client"] = "flush"
  /\ UNCHANGED <<cstate, vready, asem, pend>>
  /\ IF IsDead \/ IsEmpty(inevq("client"))
       THEN /\ pc' = [pc EXCEPT !["client"] = "idle"]
            /\ last' = Done("client", "flush", 0, NoEvent)
            /\ UNCHANGED qvars
       ELSE /\ last' = Done("client", "flush", 1, Oldest("client"))
            /\ Remove("client")
            /\ UNCHANGED pc

(***************************************************************************)
(* libretro_vidcb: marks the frame ready, then blocks on the video         *)
(* semaphore until the server has taken the frame.                         *)
(***************************************************************************)
libretro_vidcb ==
  /\ UNCHANGED xvars
  /\ pc["client"] = "idle"
  /\ vready' = TRUE
  /\ pc' = [pc EXCEPT !["client"] = "vsync"]
  /\ last' = Done("client", "vidcb", 0, NoEvent)
  /\ UNCHANGED <<qvars, cstate, asem, pend>>

\* faulty variant: a plain wait on the video semaphore, which only the server's
\* release ends
vidcb_return_plainwait ==
  /\ UNCHANGED xvars
  /\ pc["client"] = "vsync"
  /\ ~vready
  /\ pc' = [pc EXCEPT !["client"] = "idle"]
  /\ last' = Done("client", "semcheck", 0, NoEvent)
  /\ UNCHANGED <<qvars, cstate, vready, asem, pend>>

vidcb_return ==
  /\ pc["client"] = "vsync"
  /\ semcheck_return("client", ~vready)
  /\ UNCHANGED <<qvars, cstate, vready, asem, pend>>

(***************************************************************************)
(* libretro_audcb: takes the audio semaphore, appends the batch and posts  *)
(* the semaphore again.                                                    *)
(***************************************************************************)
libretro_audcb ==
  /\ UNCHANGED xvars
  /\ pc["client"] = "idle"
  /\ pc' = [pc EXCEPT !["client"] = "async"]
  /\ last' = Done("client", "audcb", 0, NoEvent)
  /\ UNCHANGED <<qvars, cstate, vready, asem, pend>>

audcb_return ==
  /\ pc["client"] = "async"
  /\ semcheck_return("client", asem = 1)
  /\ UNCHANGED <<qvars, cstate, vready, asem, pend>>

(***************************************************************************)
(* The server's buffer handling (shmifsrv test loop): a ready video frame  *)
(* is taken and released; the audio buffer is held while it is drained.    *)
(***************************************************************************)
shmifsrv_video ==
  /\ UNCHANGED xvars
  /\ pc["server"] = "idle"
  /\ ~IsDead
  /\ vready
  /\ vready' = FALSE
  /\ last' = Done("server", "video", 0, NoEvent)
  /\ UNCHANGED <<qvars, cstate, asem, pc, pend>>

shmifsrv_audio ==
  /\ UNCHANGED xvars
  /\ pc["server"] = "idle"
  /\ ~IsDead
  /\ asem = 1
  /\ asem' = 0
  /\ pc' = [pc EXCEPT !["server"] = "adrain"]
  /\ last' = Done("server", "audio_call", 0, NoEvent)
  /\ UNCHANGED <<qvars, cstate, vready, pend>>

audio_release ==
  /\ UNCHANGED xvars
  /\ pc["server"] = "adrain"
  /\ asem' = 1
  /\ pc' = [pc EXCEPT !["server"] = "idle"]
  /\ last' = Done("server", "audio", 0, NoEvent)
  /\ UNCHANGED <<qvars, cstate, vready, pend>>

(***************************************************************************)
(* Next-state relation and specifications.                                 *)
(***************************************************************************)
Poll == \E s \in Sides : arcan_shmif_poll(s)

Wait == \E s \in Sides : arcan_shmif_wait(s)

WaitReturn == \E s \in Sides : wait_return(s)

Enqueue == \E s \in Sides, e \in Events, l \in BOOLEAN : arcan_shmif_enqueue(s, e, l)

EnqueueResume == \E s \in Sides : enqueue_resume(s)

TryEnqueue == \E s \in Sides, e \in Events : arcan_shmif_tryenqueue(s, e)

Drop == \E s \in Sides : arcan_shmif_drop(s)

Next ==
  \/ Poll
  \/ Wait
  \/ WaitReturn
  \/ Enqueue
  \/ EnqueueResume
  \/ TryEnqueue
  \/ Drop
  \/ flush_eventq
  \/ flush_eventq_poll
  \/ libretro_vidcb
  \/ vidcb_return
  \/ libretro_audcb
  \/ audcb_return
  \/ shmifsrv_video
  \/ shmifsrv_audio
  \/ audio_release

Spec == Init /\ [][Next]_vars

\* a blocked call whose wake-up condition holds is scheduled and returns
Fairness ==
  /\ \A s \in Sides : WF_vars(wait_return(s)) /\ WF_vars(enqueue_resume(s))
  /\ WF_vars(vidcb_return)
  /\ WF_vars(audcb_return)

FairSpec == Spec /\ Fairness

(***************************************************************************)
(* Properties.                                                             *)
(***************************************************************************)
EnqueueOps == {"enqueue", "tryenqueue", "enqueue_resume"}

DequeueOps == {"poll", "wait", "wait_return", "flush"}

IsPrefix(a, b) == Len(a) <= Len(b) /\ a = SubSeq(b, 1, Len(a))

\* C1: event queue round trip.  An enqueue that succeeds appends exactly its
\* event to the queue the peer polls and raises the occupancy by one; a poll
\* that succeeds returns the oldest record and lowers the occupancy by one;
\* an enqueue of e into an empty queue followed at once by the peer's poll
\* returns e, field for field.
C1_RoundTrip ==
  [][\A s \in Sides :
       /\ (last'.side = s /\ last'.op = "enqueue" /\ last'.rv >= 0)
            => /\ Content(inevq(Peer(s)))' = Append(Content(inevq(Peer(s))), last'.ev)
               /\ Used(inevq(Peer(s)))' = Used(inevq(Peer(s))) + 1
       /\ (last'.side = s /\ last'.op = "poll" /\ last'.rv > 0)
            => /\ Content(outevq(Peer(s))) = <<last'.ev>> \o Content(outevq(Peer(s)))'
               /\ Used(outevq(Peer(s)))' = Used(outevq(Peer(s))) - 1
       /\ (/\ last'.side = s /\ last'.op = "poll"
           /\ last.side = Peer(s) /\ last.op = "enqueue" /\ last.rv >= 0
           /\ Used(inevq(s)) = 1)
            => /\ last'.rv > 0
               /\ last'.ev = last.ev
               /\ Used(inevq(s))' = 0]_vars

\* C1 witness: one event was enqueued into an empty queue and the poll that
\* followed has returned it.
C1_Witness ==
  /\ last.op = "poll" /\ last.rv > 0
  /\ sent[Peer(last.side)] = <<last.ev>>
  /\ recv[last.side] = <<last.ev>>
  /\ IsEmpty(inevq(last.side))

\* C2: an enqueue with lossless = false on a full queue fails at once with a
\* negative value, and the queue keeps exactly its QCap records unchanged
\* (the newest event is the one dropped).
C2_DropNewest ==
  [][\A s \in Sides :
       (/\ last'.side = s /\ last'.op \in {"enqueue", "enqueue_call"}
        /\ ~last'.lossless /\ ~IsDead
        /\ Len(sent[s]) - Len(recv[Peer(s)]) = QCap)
         => /\ last'.op = "enqueue" /\ last'.rv < 0
            /\ pc'[s] = "idle"
            /\ Content(outevq(s))' = Content(outevq(s))
            /\ Len(Content(outevq(s))') = QCap
            /\ sent'[s] = sent[s]
            /\ <<evqueue, front, back>>' = <<evqueue, front, back>>]_vars

\* C2 witness: QCap events were enqueued with no poll in between, and the
\* next enqueue with lossless = false has failed on a live connection.
C2_Witness ==
  /\ last.op = "enqueue" /\ ~last.lossless /\ last.rv < 0 /\ ~IsDead
  /\ Len(sent[last.side]) = QCap
  /\ recv[Peer(last.side)] = <<>>
  /\ Content(outevq(last.side)) = sent[last.side]

\* C4: FIFO delivery per direction.  What a side has dequeued is a prefix of
\* what its peer has enqueued, and what the peer has enqueued is what was
\* dequeued followed by the records still in the queue: no duplication, no
\* loss, no reordering.
C4_Fifo ==
  \A s \in Sides :
    /\ IsPrefix(recv[Peer(s)], sent[s])
    /\ sent[s] = recv[Peer(s)] \o Content(outevq(s))

\* C4 witness: a side has dequeued two different events while a third one
\* enqueued later is still in the queue.
C4_Witness ==
  \E s \in Sides :
    /\ Len(recv[s]) = 2 /\ recv[s][1] # recv[s][2]
    /\ Len(sent[Peer(s)]) = 3

\* C5: poll never blocks and has exactly three results.  On a dead
\* connection it returns a negative value; on a live connection it returns
\* 0 exactly when front = back, and otherwise a positive value with the
\* oldest undequeued record of the peer's outbound queue, which it removes.
C5_PollResults ==
  [][\A s \in Sides :
       (last'.side = s /\ last'.op = "poll")
         => /\ pc'[s] = "idle"
            /\ last'.rv \in {-1, 0, 1}
            /\ (last'.rv < 0) = IsDead
            /\ (last'.rv = 0) =
                 (~IsDead /\ front[outevq(Peer(s))] = back[outevq(Peer(s))])
            /\ (last'.rv > 0) = (~IsDead /\ Content(outevq(Peer(s))) # <<>>)
            /\ (last'.rv > 0) =>
                 /\ last'.ev = Head(Content(outevq(Peer(s))))
                 /\ last'.ev = sent[Peer(s)][Len(recv[s]) + 1]
                 /\ Content(outevq(Peer(s)))' = Tail(Content(outevq(Peer(s))))
            /\ (last'.rv <= 0) =>
                 /\ last'.ev = NoEvent
                 /\ <<evqueue, front, back>>' = <<evqueue, front, back>>]_vars

\* C5 witness: a side that had dequeued an event before polls the dead
\* connection and gets the terminal value although records are still queued.
C5_Witness ==
  /\ last.op = "poll" /\ last.rv < 0 /\ IsDead
  /\ Len(recv[last.side]) > 0
  /\ ~IsEmpty(inevq(last.side))

\* C6: wait never returns an empty result.  It returns non-zero only with
\* the oldest record dequeued into the destination, returns 0 only on a dead
\* connection, blocks only when the connection is alive and the queue is
\* empty, and stays blocked for as long as that is so.
C6_WaitResults ==
  [][\A s \in Sides :
       /\ (last'.side = s /\ last'.op \in {"wait", "wait_return"})
            => /\ last'.rv \in {0, 1}
               /\ (last'.rv = 0) = IsDead
               /\ (last'.rv = 0) => last'.ev = NoEvent /\ recv'[s] = recv[s]
               /\ (last'.rv # 0) =>
                    /\ Content(outevq(Peer(s))) # <<>>
                    /\ last'.ev = Head(Content(outevq(Peer(s))))
                    /\ last'.ev \in Events
                    /\ recv'[s] = Append(recv[s], last'.ev)
                    /\ Content(outevq(Peer(s)))' = Tail(Content(outevq(Peer(s))))
       /\ (last'.side = s /\ last'.op = "wait_call")
            => ~IsDead /\ Content(outevq(Peer(s))) = <<>> /\ pc'[s] = "wait"
       /\ (pc[s] = "wait" /\ ~IsDead /\ Content(outevq(Peer(s))) = <<>>)
            => pc'[s] = "wait" /\ recv'[s] = recv[s]]_vars

\* C6 witness: a wait that was blocked on an empty queue has returned
\* non-zero with an event of the peer.
C6_Witness ==
  /\ last.op = "wait_return" /\ last.rv = 1 /\ ~IsDead
  /\ last.ev \in Events
  /\ recv[last.side] = <<last.ev>>

\* C7: tryenqueue never blocks and behaves as enqueue with lossless = false
\* does.  From a state with room on a live connection either call inserts
\* the event at the back and returns the number of free slots left; from any
\* other state either call returns a negative value and leaves the queue
\* alone.
C7_TryEnqueueEquiv ==
  [][\A s \in Sides :
       (/\ last'.side = s
        /\ \/ last'.op = "tryenqueue"
           \/ last'.op \in {"enqueue", "enqueue_call"} /\ ~last'.lossless)
         => /\ last'.op \in {"tryenqueue", "enqueue"}
            /\ pc'[s] = "idle"
            /\ IF ~IsDead /\ Len(sent[s]) - Len(recv[Peer(s)]) < QCap
                 THEN /\ last'.rv = QCap - (Len(sent[s]) - Len(recv[Peer(s)])) - 1
                      /\ Content(outevq(s))' = Append(Content(outevq(s)), last'.ev)
                      /\ front' = front
                 ELSE /\ last'.rv = -1
                      /\ <<evqueue, front, back>>' = <<evqueue, front, back>>
                      /\ sent' = sent]_vars

\* C7 witness: a tryenqueue has failed on a full queue of a live connection.
C7_Witness ==
  /\ last.op = "tryenqueue" /\ last.rv < 0 /\ ~IsDead
  /\ Len(Content(outevq(last.side))) = QCap

\* the records the model's histories say are in flight towards side s
InFlight(s) == Len(sent[Peer(s)]) - Len(recv[s])

\* C8: queue index ownership.  The occupancy of each subqueue, back - front
\* modulo the array size, is the number of records enqueued and not yet
\* dequeued and lies between 0 and the capacity; front of a subqueue changes
\* only in a dequeue step of its consumer and back (and the record array)
\* only in an enqueue step of its producer: childdevq is consumed by the
\* client and produced by the server, parentdevq the other way round.
C8_IndexOwnership ==
  /\ [](/\ Used("childdevq") = InFlight("client")
        /\ Used("parentdevq") = InFlight("server")
        /\ \A s \in Sides : InFlight(s) \in 0..QCap)
  /\ [][/\ front'["childdevq"] # front["childdevq"]
             => last'.side = "client" /\ last'.op \in DequeueOps
        /\ front'["parentdevq"] # front["parentdevq"]
             => last'.side = "server" /\ last'.op \in DequeueOps
        /\ (back'["childdevq"] # back["childdevq"]
              \/ evqueue'["childdevq"] # evqueue["childdevq"])
             => last'.side = "server" /\ last'.op \in EnqueueOps
        /\ (back'["parentdevq"] # back["parentdevq"]
              \/ evqueue'["parentdevq"] # evqueue["parentdevq"])
             => last'.side = "client" /\ last'.op \in EnqueueOps]_vars

\* C8 witness: both peers have enqueued and dequeued, and the indices of a
\* subqueue have wrapped around the end of the array.
C8_Witness ==
  /\ \E q \in Queues : back[q] < front[q]
  /\ \A s \in Sides : Len(sent[s]) > 0

\* C9: DEAD is absorbing.  Once the connection is dead it stays dead, no
\* step changes a queue, no call blocks, and poll, enqueue and tryenqueue
\* return a negative value and wait returns 0.
C9_DeadAbsorbing ==
  [][IsDead =>
       /\ IsDead'
       /\ <<evqueue, front, back, sent, recv>>' = <<evqueue, front, back, sent, recv>>
       /\ last'.op \notin {"wait_call", "enqueue_call"}
       /\ last'.op \in {"poll", "enqueue", "tryenqueue", "enqueue_resume"}
            => last'.rv < 0
       /\ last'.op \in {"wait", "wait_return"} => last'.rv = 0
       /\ \A s \in Sides : pc'[s] \in {"wait", "enq"} => pc[s] = pc'[s]]_vars

\* C9 witness: on a dead connection with records still queued and room left,
\* a lossless enqueue has returned the terminal value.
C9_Witness ==
  /\ IsDead
  /\ last.op = "enqueue" /\ last.lossless /\ last.rv < 0
  /\ Used(outevq(last.side)) = 1

\* C3: a lossless enqueue on a full queue blocks.  The call inserts nothing;
\* while the queue stays full the caller stays blocked and its queue's
\* records, back index and pending event are untouched; once a slot is free
\* the blocked enqueue eventually returns, and when it returns on a live
\* connection its event has been appended behind the records already queued.
C3_LosslessBlocks ==
  /\ [][\A s \in Sides :
          /\ (/\ last'.side = s /\ last'.op \in {"enqueue", "enqueue_call"}
              /\ last'.lossless /\ ~IsDead /\ InFlight(Peer(s)) = QCap)
               => /\ last'.op = "enqueue_call"
                  /\ pc'[s] = "enq" /\ pend'[s] = last'.ev
                  /\ <<evqueue, front, back, sent>>' = <<evqueue, front, back, sent>>
          /\ (pc[s] = "enq" /\ ~IsDead /\ InFlight(Peer(s)) = QCap)
               => /\ pc'[s] = "enq" /\ pend'[s] = pend[s]
                  /\ evqueue'[outevq(s)] = evqueue[outevq(s)]
                  /\ back'[outevq(s)] = back[outevq(s)]
                  /\ sent'[s] = sent[s]
          /\ (pc[s] = "enq" /\ pc'[s] # "enq" /\ ~IsDead)
               => /\ last'.rv >= 0 /\ last'.ev = pend[s]
                  /\ Content(outevq(s))' = Append(Content(outevq(s)), pend[s])
                  /\ sent'[s] = Append(sent[s], pend[s])]_vars
  /\ \A s \in Sides :
       (pc[s] = "enq" /\ InFlight(Peer(s)) < QCap) ~> (pc[s] # "enq")

\* C3 witness: a lossless enqueue that had blocked on a full queue has
\* returned with its event queued behind a record that was there before.
C3_Witness ==
  /\ last.op = "enqueue_resume" /\ last.rv >= 0 /\ ~IsDead
  /\ Len(Content(outevq(last.side))) = QCap
  /\ Content(outevq(last.side))[QCap] = last.ev
  /\ Len(recv[Peer(last.side)]) > 0

BlockedPc == {"wait", "enq", "vsync", "async"}

\* C10: peer death is observable.  A side that is blocked in wait, in a
\* lossless enqueue or on the video or audio semaphore when the connection
\* is dropped is eventually woken, and what it gets is the terminal
\* indicator: 0 from wait, a negative value from enqueue and from the
\* semaphore check.
C10_PeerDeathObservable ==
  /\ \A s \in Sides : (IsDead /\ pc[s] \in BlockedPc) ~> (pc[s] \notin BlockedPc)
  /\ [][\A s \in Sides :
          (IsDead /\ pc[s] \in BlockedPc /\ pc'[s] # pc[s])
            => /\ last'.side = s
               /\ pc[s] = "wait" => last'.op = "wait_return" /\ last'.rv = 0
               /\ pc[s] = "enq" => last'.op = "enqueue_resume" /\ last'.rv < 0
               /\ pc[s] \in {"vsync", "async"}
                    => last'.op = "semcheck" /\ last'.rv < 0
               /\ <<evqueue, front, back>>' = <<evqueue, front, back>>]_vars

\* C10 witness: the server has dropped the connection while the client was
\* blocked on the video semaphore with its frame not taken, and the client
\* has been woken with the terminal result.
C10_Witness ==
  /\ IsDead /\ vready
  /\ last.side = "client" /\ last.op = "semcheck" /\ last.rv < 0
  /\ pc["client"] = "exit"

(***************************************************************************)
(* The shmifsrv test server (tests/core/shmifsrv/shmifsrv.c): its main     *)
(* loop polls the client's socket, flushes buffer transfers, answers the   *)
(* client's events and ticks the clock.  The client it serves is a shmif   *)
(* client that registers, requests segments, signals buffers and reads its *)
(* inbound queue.                                                          *)
(***************************************************************************)
\* ids a segment request carries
MaxSegId == 2

SegIds == 1..MaxSegId

\* number of events the client sends: one more than a subqueue holds
MaxReq == n_eventbuf

\* number of CLIENT_DEAD results the model counts
MaxDeadSeen == 2

REGISTER == [category |-> "EVENT_EXTERNAL", kind |-> "REGISTER"]

SEGREQ(i) == [category |-> "EVENT_EXTERNAL", kind |-> "SEGREQ", id |-> i]

ACTIVATE == [category |-> "EVENT_TARGET", kind |-> "ACTIVATE"]

REQFAIL(i) == [category |-> "EVENT_TARGET", kind |-> "REQFAIL", id |-> i]

\* an event of the client that the server hands to shmifsrv_process_event
MESSAGE == [category |-> "EVENT_EXTERNAL", kind |-> "MESSAGE"]

ClientEvents == {REGISTER, MESSAGE} \cup {SEGREQ(i) : i \in SegIds}

InitSrv ==
  /\ TransportInit
  /\ att = NotInUse
  /\ aud = NotInUse
  /\ vid = NotInUse
  /\ acq = NotInUse
  /\ ext = NotInUse
  /\ life = NotInUse
  /\ pix = NotInUse
  /\ scr = NotInUse
  /\ srv = [pc |-> "poll", pv |-> -1, sock |-> "open", aready |-> FALSE,
            deadseen |-> 0]

\* the replies the server's event loop sends for a dequeued event
Replies(ev) ==
  IF ev.kind = "REGISTER" THEN <<ACTIVATE>>
  ELSE IF ev.kind = "SEGREQ" THEN <<REQFAIL(ev.id)>>
  ELSE <<>>

\* shmifsrv_enqueue_event: the record is inserted unless the connection is
\* dead or the client's inbound queue is full; it does not block
shmifsrv_enqueue_event(rs) ==
  IF rs = <<>> \/ IsDead \/ IsFull(outevq("server"))
    THEN UNCHANGED <<evqueue, back, sent>>
    ELSE /\ evqueue' = [evqueue EXCEPT
                          ![outevq("server")][back[outevq("server")]] = rs[1]]
         /\ back' = [back EXCEPT
                       ![outevq("server")] = Slot(back[outevq("server")] + 1)]
         /\ sent' = [sent EXCEPT !["server"] = Append(sent["server"], rs[1])]

\* poll() on the client's socket at the head of the main loop: anything but
\* POLLIN alone leaves the loop, POLLIN sets the timeout of later polls
main_poll(revents) ==
  /\ srv.pc = "poll"
  /\ revents = "POLLHUP" <=> srv.sock = "hup"
  /\ revents = "TIMEOUT" => srv.pv = 16
  /\ srv' = [srv EXCEPT
               !.pc = IF revents = "POLLHUP" THEN "free" ELSE "buffers",
               !.pv = IF revents = "POLLIN" THEN 16 ELSE @]
  /\ UNCHANGED <<tvars, att, aud, vid, acq, ext, life, pix, scr>>

\* one round of the loop over shmifsrv_poll: a dead client ends the loop over
\* the buffers (and only that loop), a ready buffer is taken and released
main_shmifsrv_poll ==
  /\ srv.pc = "buffers"
  /\ UNCHANGED <<qvars, cstate, asem, pc, pend, last, att, aud, vid, acq, ext, life, pix, scr>>
  /\ IF IsDead
       THEN /\ srv' = [srv EXCEPT
                         !.pc = "events",
                         !.deadseen = IF @ < MaxDeadSeen THEN @ + 1 ELSE @]
            /\ UNCHANGED vready
       ELSE IF vready
         THEN /\ vready' = FALSE
              /\ UNCHANGED srv
         ELSE IF srv.aready
           THEN /\ srv' = [srv EXCEPT !.aready = FALSE]
                /\ UNCHANGED vready
           ELSE /\ srv' = [srv EXCEPT !.pc = "events"]
                /\ UNCHANGED vready

\* one round of the loop over shmifsrv_dequeue_events: the event is taken
\* and answered; the result of shmifsrv_enqueue_event is not looked at
main_dequeue ==
  /\ srv.pc = "events"
  /\ UNCHANGED <<cstate, vready, asem, pc, pend, last, att, aud, vid, acq, ext, life, pix, scr>>
  /\ IF IsDead \/ IsEmpty(inevq("server"))
       THEN /\ srv' = [srv EXCEPT !.pc = "tick"]
            /\ UNCHANGED qvars
       ELSE /\ front' = [front EXCEPT
                           ![inevq("server")] = Slot(front[inevq("server")] + 1)]
            /\ recv' = [recv EXCEPT
                          !["server"] = Append(recv["server"], Oldest("server"))]
            /\ shmifsrv_enqueue_event(Replies(Oldest("server")))
            /\ UNCHANGED srv

\* the clock ticks, then the main loop starts over
main_tick ==
  /\ srv.pc = "tick"
  /\ srv' = [srv EXCEPT !.pc = "poll"]
  /\ UNCHANGED <<tvars, att, aud, vid, acq, ext, life, pix, scr>>

\* shmifsrv_free after the main loop
main_free ==
  /\ srv.pc = "free"
  /\ srv' = [srv EXCEPT !.pc = "freed"]
  /\ cstate' = "DEAD"
  /\ UNCHANGED <<qvars, vready, asem, pc, pend, last, att, aud, vid, acq, ext, life, pix, scr>>

\* the client puts an event into its outbound queue
client_enqueue(e) ==
  /\ ~IsDead
  /\ ~IsFull(outevq("client"))
  /\ Len(sent["client"]) < MaxReq
  /\ Insert("client", e)
  /\ UNCHANGED <<cstate, vready, asem, pc, pend, last, xvars>>

\* the client takes the oldest event of its inbound queue
client_poll ==
  /\ ~IsDead
  /\ ~IsEmpty(inevq("client"))
  /\ Remove("client")
  /\ UNCHANGED <<cstate, vready, asem, pc, pend, last, xvars>>

\* the client signals a video frame
client_video ==
  /\ ~IsDead
  /\ ~vready
  /\ vready' = TRUE
  /\ UNCHANGED <<qvars, cstate, asem, pc, pend, last, xvars>>

\* the client signals an audio buffer
client_audio ==
  /\ ~IsDead
  /\ ~srv.aready
  /\ srv' = [srv EXCEPT !.aready = TRUE]
  /\ UNCHANGED <<tvars, att, aud, vid, acq, ext, life, pix, scr>>

\* the client's end of the socket is closed once the client has gone
client_close ==
  /\ IsDead
  /\ srv.sock = "open"
  /\ srv.pc # "freed"
  /\ srv' = [srv EXCEPT !.sock = "hup"]
  /\ UNCHANGED <<tvars, att, aud, vid, acq, ext, life, pix, scr>>

MainPoll == \E r \in {"POLLIN", "TIMEOUT", "POLLHUP"} : main_poll(r)

ClientEnqueue == \E e \in ClientEvents : client_enqueue(e)

ClientDrop == srv.pc # "freed" /\ arcan_shmif_drop("client")

NextSrv ==
  \/ MainPoll
  \/ main_shmifsrv_poll
  \/ main_dequeue
  \/ main_tick
  \/ main_free
  \/ ClientEnqueue
  \/ client_poll
  \/ client_video
  \/ client_audio
  \/ ClientDrop
  \/ client_close

SpecSrv == InitSrv /\ [][NextSrv]_vars

(***************************************************************************)
(* C11: once a process has observed that its connection is dead (the       *)
(* server: shmifsrv_poll returned CLIENT_DEAD), its main loop leaves the   *)
(* processing cycle and releases the connection; it does not go round the  *)
(* loop on the dead connection again, so CLIENT_DEAD is seen at most once. *)
(***************************************************************************)
C11_LeavesLoopOnDead == srv.deadseen <= 1

(***************************************************************************)
(* Attaching to a shared region.  The creator of the page stores the       *)
(* cookie of its build in the page; the attaching side computes the cookie *)
(* of its own build (arcan_shmif_cookie, a hash of the page layout with    *)
(* the version numbers as tag) and compares the two before it trusts any   *)
(* other field.                                                            *)
(***************************************************************************)
ASHMIF_VERSION_MAJOR == 0

ASHMIF_VERSION_MINOR == 11

\* page layouts (as compilers may lay the page out) the model tells apart
MaxLayout == 3

Layouts == 0..MaxLayout

\* largest width / height stored in a page that is attached to
MaxGeom == 2

\* a build: the version numbers and the layout it was compiled with
Builds ==
  [major : {ASHMIF_VERSION_MAJOR, ASHMIF_VERSION_MAJOR + 1},
   minor : {ASHMIF_VERSION_MINOR - 1, ASHMIF_VERSION_MINOR},
   layout : Layouts]

\* the builds of the attaching side: the versions of this header
OwnBuilds ==
  {b \in Builds : b.major = ASHMIF_VERSION_MAJOR /\ b.minor = ASHMIF_VERSION_MINOR}

\* a hash: it tells most, not all, layouts apart
arcan_shmif_cookie(b) == (b.major * 256 + b.minor) * 256 + (b.layout % 3)

InitAttach ==
  /\ TransportInit
  /\ aud = NotInUse
  /\ vid = NotInUse
  /\ srv = NotInUse
  /\ acq = NotInUse
  /\ ext = NotInUse
  /\ life = NotInUse
  /\ pix = NotInUse
  /\ scr = NotInUse
  /\ \E c \in Builds, b \in OwnBuilds, w \in 1..MaxGeom, h \in 1..MaxGeom :
       att = [page |-> [cookie |-> arcan_shmif_cookie(c), w |-> w, h |-> h],
              build |-> b,
              result |-> "none", read |-> {}, conn |-> NotInUse]

\* faulty variant: only the version tag of the cookie is compared
attach_versiononly ==
  /\ att.result = "none"
  /\ UNCHANGED <<tvars, aud, vid, srv, acq, ext, life, pix, scr>>
  /\ IF att.page.cookie \div 256 = arcan_shmif_cookie(att.build) \div 256
       THEN att' = [att EXCEPT
                      !.result = "Connection",
                      !.read = {"cookie", "w", "h"},
                      !.conn = [w |-> att.page.w, h |-> att.page.h]]
       ELSE att' = [att EXCEPT
                      !.result = "IntegrityMismatch",
                      !.read = {"cookie"}]

\* attach(raw_region): the cookie is read and compared; only when it matches
\* are the other fields read and the connection state set up
attach ==
  /\ att.result = "none"
  /\ UNCHANGED <<tvars, aud, vid, srv, acq, ext, life, pix, scr>>
  /\ IF att.page.cookie = arcan_shmif_cookie(att.build)
       THEN att' = [att EXCEPT
                      !.result = "Connection",
                      !.read = {"cookie", "w", "h"},
                      !.conn = [w |-> att.page.w, h |-> att.page.h]]
       ELSE att' = [att EXCEPT
                      !.result = "IntegrityMismatch",
                      !.read = {"cookie"}]

NextAttach == attach

SpecAttach == InitAttach /\ [][NextAttach]_vars

(***************************************************************************)
(* C12: an attach to a region whose stored cookie differs from the cookie  *)
(* of the attaching build yields IntegrityMismatch, has read no field but  *)
(* the cookie and has set up no connection state; an attach succeeds only  *)
(* when the two cookies are equal.                                         *)
(***************************************************************************)
C12_IntegrityMismatch ==
  att.result # "none" =>
    /\ att.page.cookie # arcan_shmif_cookie(att.build) =>
         /\ att.result = "IntegrityMismatch"
         /\ att.read = {"cookie"}
         /\ att.conn = NotInUse
    /\ att.result = "Connection" =>
         att.page.cookie = arcan_shmif_cookie(att.build)

\* an attach was refused although the version numbers of the two builds agree
C12_Witness ==
  /\ att.result = "IntegrityMismatch"
  /\ att.page.cookie \div 256 = arcan_shmif_cookie(att.build) \div 256

(***************************************************************************)
(* The audio buffer of the page and libretro_audcb.  Addresses are offsets *)
(* from the start of the audio buffer (abufofs); the buffer is the bytes   *)
(* 0 .. SHMPAGE_AUDIOBUF_SIZE - 1, any other offset is memory of the page  *)
(* outside the audio buffer.  Every byte the core delivers carries its     *)
(* running number, so that the contents of the buffer can be compared.     *)
(***************************************************************************)
\* capacity of the audio buffer in bytes
SHMPAGE_AUDIOBUF_SIZE == 8

\* largest number of frames the core delivers in one batch
MaxFrames == 3

\* number of batches the model explores
MaxBatch == 3

\* what a read outside the audio buffer yields
Junk == 0

\* bytes of one frame: two channels of int16_t
FrameBytes == 2 * 2

ABufIdx == 0..(SHMPAGE_AUDIOBUF_SIZE - 1)

InitAudio ==
  /\ TransportInit
  /\ att = NotInUse
  /\ vid = NotInUse
  /\ srv = NotInUse
  /\ acq = NotInUse
  /\ ext = NotInUse
  /\ life = NotInUse
  /\ pix = NotInUse
  /\ scr = NotInUse
  /\ aud = [buf |-> [j \in ABufIdx |-> Junk],
            abufused |-> 0,
            audbuf_used |-> 0,
            pc |-> "idle",
            new_s |-> 0, dstofs |-> 0, data |-> <<>>,
            next |-> 1, batches |-> 0,
            oob |-> FALSE,
            pre |-> <<>>, overflow |-> 0, fresh |-> FALSE]

\* the bytes of the buffer that count as used, oldest first
AudioContent(a) ==
  IF a.abufused \in 0..SHMPAGE_AUDIOBUF_SIZE
    THEN [k \in 1..a.abufused |-> a.buf[k - 1]]
    ELSE <<>>

\* a read of the byte at offset j
MemRead(b, j) == IF j \in ABufIdx THEN b[j] ELSE Junk

\* memmove(dst, src, len) as far as it lands in the audio buffer
MemMove(b, dst, src, len) ==
  [j \in ABufIdx |->
     IF j - dst \in 0..(len - 1) THEN MemRead(b, src + (j - dst)) ELSE b[j]]

\* memcpy(dst, data, len) as far as it lands in the audio buffer
MemCpy(b, dst, data) ==
  [j \in ABufIdx |->
     IF j - dst \in 0..(Len(data) - 1) THEN data[j - dst + 1] ELSE b[j]]

\* does an access of len bytes at offset ofs leave the audio buffer
Outside(ofs, len) == len > 0 /\ (ofs < 0 \/ ofs + len > SHMPAGE_AUDIOBUF_SIZE)

\* libretro_audcb up to its semaphore check: the size of the batch and the
\* destination offset are computed from the page as it is now
AudcbEnter(a, nframes) ==
  [a EXCEPT
     !.pc = "async",
     !.new_s = nframes * FrameBytes,
     !.dstofs = a.abufused,
     !.data = [k \in 1..(nframes * FrameBytes) |-> a.next + k - 1],
     !.next = @ + nframes * FrameBytes,
     !.batches = @ + 1,
     !.fresh = FALSE]

\* the core delivers a batch of frames
audcb_call(nframes) ==
  /\ aud.pc = "idle"
  /\ aud.batches < MaxBatch
  /\ aud.audbuf_used = 0
  /\ aud' = AudcbEnter(aud, nframes)
  /\ UNCHANGED <<tvars, att, vid, srv, acq, ext, life, pix, scr>>

\* libretro_audscb: one frame goes into the local buffer
libretro_audscb ==
  /\ aud.pc = "idle"
  /\ aud.batches < MaxBatch
  /\ aud.audbuf_used < 2 * MaxFrames
  /\ aud' = [aud EXCEPT !.audbuf_used = @ + 2]
  /\ UNCHANGED <<tvars, att, vid, srv, acq, ext, life, pix, scr>>

\* the main loop hands what libretro_audscb has collected to libretro_audcb
\* and empties the local buffer
run_audbuf ==
  /\ aud.pc = "idle"
  /\ aud.audbuf_used > 0
  /\ aud' = [AudcbEnter(aud, aud.audbuf_used \div 2) EXCEPT !.audbuf_used = 0]
  /\ UNCHANGED <<tvars, att, vid, srv, acq, ext, life, pix, scr>>

\* libretro_audcb once the semaphore is taken: the overflow is computed and,
\* when there is one, data is moved and abufused reduced by it
audcb_overflow ==
  /\ aud.pc = "async"
  /\ asem = 1
  /\ asem' = 0
  /\ LET overflow == aud.abufused + aud.new_s - SHMPAGE_AUDIOBUF_SIZE
     IN  aud' = [aud EXCEPT
                   !.pc = "copy",
                   !.pre = AudioContent(aud),
                   !.overflow = overflow,
                   !.buf = IF overflow > 0
                             THEN MemMove(@, aud.dstofs, aud.dstofs + overflow,
                                          overflow)
                             ELSE @,
                   !.abufused = IF overflow > 0 THEN @ - overflow ELSE @,
                   !.oob = \/ @
                           \/ /\ overflow > 0
                              /\ \/ Outside(aud.dstofs, overflow)
                                 \/ Outside(aud.dstofs + overflow, overflow)]
  /\ UNCHANGED <<qvars, cstate, vready, pc, pend, last, att, vid, srv, acq, ext, life, pix, scr>>

\* the batch is copied in, abufused advanced and the semaphore posted
audcb_copy ==
  /\ aud.pc = "copy"
  /\ asem' = 1
  /\ aud' = [aud EXCEPT
               !.pc = "idle",
               !.buf = MemCpy(@, aud.dstofs + aud.abufused, aud.data),
               !.abufused = @ + aud.new_s,
               !.oob = @ \/ Outside(aud.dstofs + aud.abufused, aud.new_s),
               !.fresh = TRUE]
  /\ UNCHANGED <<qvars, cstate, vready, pc, pend, last, att, vid, srv, acq, ext, life, pix, scr>>

\* the server takes what is in the audio buffer, under the audio semaphore
audio_drain ==
  /\ asem = 1
  /\ aud.abufused > 0
  /\ aud' = [aud EXCEPT !.abufused = 0, !.fresh = FALSE]
  /\ UNCHANGED <<tvars, att, vid, srv, acq, ext, life, pix, scr>>

AudcbCall == \E n \in 1..MaxFrames : audcb_call(n)

NextAudio ==
  \/ AudcbCall
  \/ libretro_audscb
  \/ run_audbuf
  \/ audcb_overflow
  \/ audcb_copy
  \/ audio_drain

SpecAudio == InitAudio /\ [][NextAudio]_vars

(***************************************************************************)
(* C13: whatever batches libretro_audcb is given and however the server's  *)
(* drains fall between them, abufused is never above the capacity of the   *)
(* audio buffer and never negative.                                        *)
(***************************************************************************)
C13_AudioUsedBounded == aud.abufused \in 0..SHMPAGE_AUDIOBUF_SIZE

(***************************************************************************)
(* C14: right after a batch that did not fit beside the bytes in use (and  *)
(* is itself no larger than the buffer), abufused equals the capacity and  *)
(* the used part of the buffer holds the old bytes without their oldest    *)
(* `overflow` ones, in order, followed by the new batch.                   *)
(***************************************************************************)
C14_OverflowDropsOldest ==
  (aud.fresh /\ aud.overflow > 0 /\ aud.new_s <= SHMPAGE_AUDIOBUF_SIZE) =>
    /\ aud.abufused = SHMPAGE_AUDIOBUF_SIZE
    /\ AudioContent(aud) =
         SubSeq(aud.pre, aud.overflow + 1, Len(aud.pre)) \o aud.data

(***************************************************************************)
(* The libretro frameserver's main loop and video callback against the     *)
(* page's geometry fields (w, h, resized), its video buffer and the video  *)
(* gate.  The stores to the page are steps of their own, in program order: *)
(* the server reads the page from another process.  The server's side (it  *)
(* acknowledges a resize, takes a frame, sends input events, may drop the  *)
(* connection) is modelled from the design description.                    *)
(***************************************************************************)
\* number of frames the core delivers
MaxVid == 2

\* widths / heights the core may pass to the video callback: up to one more
\* than the maximum the page was set up for
Dims == 1..(MaxGeom + 1)

IOEVENT == [category |-> "EVENT_IO", kind |-> "DIGITAL"]

InitVideo ==
  /\ TransportInit
  /\ att = NotInUse
  /\ aud = NotInUse
  /\ srv = NotInUse
  /\ acq = NotInUse
  /\ ext = NotInUse
  /\ life = NotInUse
  /\ pix = NotInUse
  /\ scr = NotInUse
  /\ vid = [max_width |-> MaxGeom, max_height |-> MaxGeom,
            w |-> MaxGeom, h |-> MaxGeom, resized |-> FALSE,
            vbuf |-> NotInUse, nframes |-> 0, nread |-> 0, torn |-> FALSE,
            pc |-> "setup", width |-> 0, height |-> 0,
            pairs |-> {<<MaxGeom, MaxGeom>>},
            cpc |-> "idle", cw |-> 0, ch |-> 0,
            mapped |-> <<MaxGeom, MaxGeom>>, acked |-> {}]

\* arcan_frameserver_libretro_run after the page is mapped and the queues are
\* bound: alive, resized and the core's reset
run_setup ==
  /\ vid.pc = "setup"
  /\ vid' = [vid EXCEPT !.pc = "flush", !.resized = TRUE]
  /\ UNCHANGED <<tvars, att, aud, srv, acq, ext, life, pix, scr>>

\* flush_eventq in the main loop: the inbound queue is polled until the poll
\* comes back with nothing; no event is awaited
run_flush ==
  /\ vid.pc = "flush"
  /\ UNCHANGED <<cstate, vready, asem, pc, pend, last, att, aud, srv, acq, ext, life, pix, scr>>
  /\ IF IsDead \/ IsEmpty(inevq("client"))
       THEN /\ vid' = [vid EXCEPT !.pc = "run"]
            /\ UNCHANGED qvars
       ELSE /\ Remove("client")
            /\ UNCHANGED vid

\* retroctx.run() calls libretro_vidcb, which compares the frame's size with
\* the page's
vidcb_enter(width, height) ==
  /\ vid.pc = "run"
  /\ vid.nframes < MaxVid
  /\ vid' = [vid EXCEPT
               !.width = width, !.height = height,
               !.pc = IF width # vid.w \/ height # vid.h
                        THEN "store_w" ELSE "frame"]
  /\ UNCHANGED <<tvars, att, aud, srv, acq, ext, life, pix, scr>>

vidcb_store_w ==
  /\ vid.pc = "store_w"
  /\ vid' = [vid EXCEPT !.w = vid.width, !.pc = "store_h"]
  /\ UNCHANGED <<tvars, att, aud, srv, acq, ext, life, pix, scr>>

vidcb_store_h ==
  /\ vid.pc = "store_h"
  /\ vid' = [vid EXCEPT !.h = vid.height, !.pc = "store_resized"]
  /\ UNCHANGED <<tvars, att, aud, srv, acq, ext, life, pix, scr>>

vidcb_store_resized ==
  /\ vid.pc = "store_resized"
  /\ vid' = [vid EXCEPT
               !.resized = TRUE,
               !.pairs = @ \cup {<<vid.width, vid.height>>},
               !.pc = "frame"]
  /\ UNCHANGED <<tvars, att, aud, srv, acq, ext, life, pix, scr>>

\* the loop converts the frame into the video buffer
vidcb_frame ==
  /\ vid.pc = "frame"
  /\ vid' = [vid EXCEPT
               !.vbuf = <<vid.width, vid.height>>,
               !.nframes = @ + 1,
               !.torn = @ \/ vid.cpc = "vread",
               !.pc = "vready"]
  /\ UNCHANGED <<tvars, att, aud, srv, acq, ext, life, pix, scr>>

\* the complete frame is marked ready
vidcb_store_vready ==
  /\ vid.pc = "vready"
  /\ vid' = [vid EXCEPT !.pc = "vsync"]
  /\ vready' = TRUE
  /\ UNCHANGED <<qvars, cstate, asem, pc, pend, last, att, aud, srv, acq, ext, life, pix, scr>>

\* frameserver_semcheck that comes back at once
vidcb_semcheck_nowait ==
  /\ vid.pc = "vsync"
  /\ vid' = [vid EXCEPT !.pc = IF IsDead THEN "exit" ELSE "flush"]
  /\ UNCHANGED <<tvars, att, aud, srv, acq, ext, life, pix, scr>>

\* frameserver_semcheck on the video semaphore: returns once the server has
\* released the frame, ends the process when the connection has died
vidcb_semcheck ==
  /\ vid.pc = "vsync"
  /\ ~vready \/ IsDead
  /\ vid' = [vid EXCEPT !.pc = IF IsDead THEN "exit" ELSE "flush"]
  /\ UNCHANGED <<tvars, att, aud, srv, acq, ext, life, pix, scr>>

\* the server notices the resized flag ...
resize_see ==
  /\ vid.cpc = "idle"
  /\ ~IsDead
  /\ vid.resized
  /\ vid' = [vid EXCEPT !.cpc = "read_w"]
  /\ UNCHANGED <<tvars, att, aud, srv, acq, ext, life, pix, scr>>

\* ... reads the two geometry fields ...
resize_read_w ==
  /\ vid.cpc = "read_w"
  /\ vid' = [vid EXCEPT !.cw = vid.w, !.cpc = "read_h"]
  /\ UNCHANGED <<tvars, att, aud, srv, acq, ext, life, pix, scr>>

resize_read_h ==
  /\ vid.cpc = "read_h"
  /\ vid' = [vid EXCEPT !.ch = vid.h, !.cpc = "ack"]
  /\ UNCHANGED <<tvars, att, aud, srv, acq, ext, life, pix, scr>>

\* ... maps its storage for them and clears the flag
resize_ack ==
  /\ vid.cpc = "ack"
  /\ vid' = [vid EXCEPT
               !.mapped = <<vid.cw, vid.ch>>,
               !.acked = @ \cup {<<vid.cw, vid.ch>>},
               !.resized = FALSE,
               !.cpc = "idle"]
  /\ UNCHANGED <<tvars, att, aud, srv, acq, ext, life, pix, scr>>

\* the server takes a ready frame: it starts to read the video buffer; it
\* does not touch the buffer while a resize is outstanding
video_take ==
  /\ vid.cpc = "idle"
  /\ ~IsDead
  /\ ~vid.resized
  /\ vready
  /\ vid' = [vid EXCEPT !.cpc = "vread"]
  /\ UNCHANGED <<tvars, att, aud, srv, acq, ext, life, pix, scr>>

\* the server has read the frame and releases the video semaphore
video_release ==
  /\ vid.cpc = "vread"
  /\ vid' = [vid EXCEPT !.cpc = "idle", !.nread = @ + 1]
  /\ vready' = FALSE
  /\ UNCHANGED <<qvars, cstate, asem, pc, pend, last, att, aud, srv, acq, ext, life, pix, scr>>

VidcbEnter == \E width \in Dims, height \in Dims : vidcb_enter(width, height)

ServerInput == arcan_shmif_tryenqueue("server", IOEVENT)

ServerDrop == arcan_shmif_drop("server")

NextVideo ==
  \/ run_setup
  \/ run_flush
  \/ VidcbEnter
  \/ vidcb_store_w
  \/ vidcb_store_h
  \/ vidcb_store_resized
  \/ vidcb_frame
  \/ vidcb_store_vready
  \/ vidcb_semcheck
  \/ resize_see
  \/ resize_read_w
  \/ resize_read_h
  \/ resize_ack
  \/ video_take
  \/ video_release
  \/ ServerInput
  \/ ServerDrop

SpecVideo == InitVideo /\ [][NextVideo]_vars

(***************************************************************************)
(* C15: a server that has seen resized set and then reads w and h gets a   *)
(* pair that the client wrote together in one resize request (or the pair  *)
(* the page was set up with): never the w of one request with the h of     *)
(* another.                                                                *)
(***************************************************************************)
C15_ResizeAtomic == vid.acked \subseteq vid.pairs

(***************************************************************************)
(* C16: while resized stays set, the client writes no frame into the video *)
(* buffer and does not set the video-ready flag; the server does not take  *)
(* a frame while resized is set.                                           *)
(***************************************************************************)
C16_NoFrameDuringResize ==
  [][(vid.resized /\ vid'.resized) =>
       /\ vid'.nframes = vid.nframes
       /\ vready' = vready]_vars

(***************************************************************************)
(* C17: a frame size above the maximum the page was set up for is          *)
(* rejected: the page's w and h never exceed the maximum, and no frame of  *)
(* such a size is written into the video buffer.                           *)
(***************************************************************************)
C17_ResizeWithinMax ==
  /\ vid.w <= vid.max_width
  /\ vid.h <= vid.max_height
  /\ vid.vbuf # NotInUse =>
       vid.vbuf[1] <= vid.max_width /\ vid.vbuf[2] <= vid.max_height

\* has the client sent its registration / received the activation
Registered == \E i \in 1..Len(sent["client"]) : sent["client"][i] = REGISTER

Activated == \E i \in 1..Len(recv["client"]) : recv["client"][i] = ACTIVATE

(***************************************************************************)
(* C18: the client submits no frame before it has sent its registration    *)
(* and received the server's activation.                                   *)
(***************************************************************************)
C18_NoFrameBeforeActivation == vid.nframes > 0 => (Registered /\ Activated)

(***************************************************************************)
(* The answers of the test server's event loop.                            *)
(***************************************************************************)
\* how many records of the sequence s equal e
Count(s, e) == Cardinality({i \in 1..Len(s) : s[i] = e})

IsSegreq(e) == e.kind = "SEGREQ"

IsReqfail(e) == e.kind = "REQFAIL"

\* the ids of the records of s, in order
Ids(s) == [i \in 1..Len(s) |-> s[i].id]

(***************************************************************************)
(* C19: every EVENT_EXTERNAL_REGISTER the server has dequeued is answered  *)
(* by exactly one TARGET_COMMAND_ACTIVATE put into the client's inbound    *)
(* queue, also when that queue was full: the activations sent are as many  *)
(* as the registrations dequeued.                                          *)
(***************************************************************************)
C19_RegisterAnswered ==
  Count(sent["server"], ACTIVATE) = Count(recv["server"], REGISTER)

(***************************************************************************)
(* C20: every EVENT_EXTERNAL_SEGREQ the server has dequeued is answered by *)
(* exactly one reply; the test server's reply is a REQFAIL that carries    *)
(* the id of the request, never a NEWSEGMENT: the ids of the REQFAILs sent *)
(* are the ids of the requests dequeued, in order.                         *)
(***************************************************************************)
C20_SegreqAnswered ==
  /\ Ids(SelectSeq(sent["server"], IsReqfail)) =
       Ids(SelectSeq(recv["server"], IsSegreq))
  /\ \A i \in 1..Len(sent["server"]) : sent["server"][i].kind # "NEWSEGMENT"

(***************************************************************************)
(* SpecAcquire: arcan_shmif_acquireloop.  A client that has requested a    *)
(* segment dequeues its inbound events until the reply (NEWSEGMENT or      *)
(* REQFAIL) arrives and saves every other event in a growing pool.  The    *)
(* descriptor of a descriptor-carrying event travels over the socket of    *)
(* the connection (arcan_pushhandle / arcan_fetchhandle).  Modelled from   *)
(* the declarations and their documentation in arcan_shmif_interop.h and   *)
(* from the design description.                                            *)
(***************************************************************************)
\* number of events the server pushes while the request is pending
MaxArrive == 4

\* the value of a descriptor field that holds no descriptor
BADFD == -1

TargetKinds == {"DISPLAYHINT", "BCHUNK_IN", "NEWSEGMENT", "REQFAIL"}

\* true for the events that come with a descriptor on the socket
arcan_shmif_descrevent(e) == e.kind \in {"BCHUNK_IN", "NEWSEGMENT"}

\* true for the two replies to a segment request
IsReply(e) == e.kind \in {"NEWSEGMENT", "REQFAIL"}

InitAcquire ==
  /\ TransportInit
  /\ att = NotInUse
  /\ aud = NotInUse
  /\ vid = NotInUse
  /\ srv = NotInUse
  /\ ext = NotInUse
  /\ life = NotInUse
  /\ pix = NotInUse
  /\ scr = NotInUse
  /\ acq = [pc |-> "idle", inq |-> <<>>, sock |-> <<>>, nfd |-> 1,
            pushed |-> <<>>, dead |-> FALSE, pool |-> <<>>, ndeq |-> 0,
            acq_event |-> NoEvent, ret |-> FALSE, evpool |-> <<>>,
            evpool_sz |-> 0, haspool |-> TRUE,
            oom |-> FALSE]

\* the server enqueues one event and, in the same call, sends its descriptor
server_push(kind) ==
  LET d == arcan_shmif_descrevent([kind |-> kind])
      e == [kind |-> kind, tag |-> IF d THEN acq.nfd ELSE 0, fd |-> BADFD]
  IN /\ ~acq.dead
     /\ Len(acq.pushed) < MaxArrive
     /\ acq' = [acq EXCEPT !.inq = Append(@, e),
                           !.pushed = Append(@, e),
                           !.sock = IF d THEN Append(@, acq.nfd) ELSE @,
                           !.nfd = IF d THEN @ + 1 ELSE @]
     /\ UNCHANGED <<tvars, att, aud, vid, srv, ext, life, pix, scr>>

\* the connection dies
acquire_peer_dies ==
  /\ ~acq.dead
  /\ acq' = [acq EXCEPT !.dead = TRUE]
  /\ UNCHANGED <<tvars, att, aud, vid, srv, ext, life, pix, scr>>

\* the client sends its segment request and enters the loop
acquire_enter ==
  /\ acq.pc = "idle"
  /\ acq' = [acq EXCEPT !.pc = "waiting"]
  /\ UNCHANGED <<tvars, att, aud, vid, srv, ext, life, pix, scr>>

fetchhandle_last(sock) == [fd |-> sock[Len(sock)], rest |-> SubSeq(sock, 1, Len(sock) - 1)]

\* the oldest descriptor waiting on the socket, and the socket without it
arcan_fetchhandle(sock) == [fd |-> Head(sock), rest |-> Tail(sock)]

Grow_front(pool, e) == <<e>> \o pool

\* the pool with one more event saved at its end
Grow(pool, e) == Append(pool, e)

acquire_dead_nopool ==
  /\ acq.pc = "waiting"
  /\ acq.dead
  /\ acq' = [acq EXCEPT !.pc = "returned", !.ret = FALSE,
                        !.evpool = <<>>, !.evpool_sz = -1]
  /\ UNCHANGED <<tvars, att, aud, vid, srv, ext, life, pix, scr>>

\* the wait of the loop fails on a dead connection: broken state, pool kept
acquire_dead ==
  /\ acq.pc = "waiting"
  /\ acq.dead
  /\ acq' = [acq EXCEPT !.pc = "returned", !.ret = FALSE,
                        !.evpool = acq.pool, !.evpool_sz = -1]
  /\ UNCHANGED <<tvars, att, aud, vid, srv, ext, life, pix, scr>>

\* one round of the loop: dequeue an event, fetch its descriptor, then
\* return on a reply or save the event in the pool (which may fail)
acquire_step(oom) ==
  /\ acq.pc = "waiting"
  /\ ~acq.dead
  /\ acq.inq # <<>>
  /\ LET e == Head(acq.inq)
         d == arcan_shmif_descrevent(e)
         h == IF d /\ acq.sock # <<>> THEN arcan_fetchhandle(acq.sock)
              ELSE [fd |-> BADFD, rest |-> acq.sock]
         ev == [e EXCEPT !.fd = h.fd]
         a == [acq EXCEPT !.inq = Tail(@), !.sock = h.rest, !.ndeq = @ + 1]
     IN IF IsReply(e)
        THEN acq' = [a EXCEPT !.pc = "returned", !.acq_event = ev,
                              !.ret = (e.kind = "NEWSEGMENT"),
                              !.evpool = acq.pool,
                              !.evpool_sz = Len(acq.pool)]
        ELSE IF oom
        THEN acq' = [a EXCEPT !.pc = "returned", !.ret = FALSE, !.oom = TRUE,
                              !.pool = <<>>, !.evpool = <<>>,
                              !.haspool = FALSE,
                              !.evpool_sz = 0]
        ELSE acq' = [a EXCEPT !.pool = Grow(@, ev)]
  /\ UNCHANGED <<tvars, att, aud, vid, srv, ext, life, pix, scr>>

ServerPush == \E k \in TargetKinds : server_push(k)

AcquireStep == \E oom \in BOOLEAN : acquire_step(oom)

NextAcquire ==
  \/ ServerPush
  \/ acquire_peer_dies
  \/ acquire_enter
  \/ AcquireStep
  \/ acquire_dead

SpecAcquire == InitAcquire /\ [][NextAcquire]_vars

\* a delivered event as the server meant it: its descriptor is its tag
Meant(e) == [e EXCEPT !.fd = IF arcan_shmif_descrevent(e) THEN e.tag ELSE BADFD]

MeantSeq(s) == [i \in 1..Len(s) |-> Meant(s[i])]

\* the events of a sequence that carry a descriptor
DescrOnly(s) == SelectSeq(s, arcan_shmif_descrevent)

\* C21: while the loop waits, the pool is exactly the dequeued events in
\* their order of arrival (none passed on, none dropped); when the reply arrives
\* the caller gets the reply and, as the backlog, every event that arrived
\* before it, unchanged and in order, each descriptor-carrying one with its
\* descriptor.
C21_BacklogPreserved ==
    /\ (acq.pc = "waiting" =>
          acq.pool = MeantSeq(SubSeq(acq.pushed, 1, acq.ndeq)))
    /\ (acq.pc = "returned" /\ IsReply(acq.acq_event) =>
          /\ acq.evpool = MeantSeq(SubSeq(acq.pushed, 1, acq.ndeq - 1))
          /\ acq.evpool_sz = acq.ndeq - 1
          /\ acq.acq_event = Meant(acq.pushed[acq.ndeq])
          /\ \A i \in 1..Len(acq.evpool) :
               arcan_shmif_descrevent(acq.evpool[i]) =>
                 acq.evpool[i].fd # BADFD)

C21_Witness ==
  /\ acq.pc = "returned"
  /\ acq.ret
  /\ Len(acq.evpool) = 3
  /\ Len(DescrOnly(acq.evpool)) = 1
  /\ acq.evpool[1].kind = "DISPLAYHINT"

C23_DescriptorPairing ==
  acq.haspool =>
    LET got == acq.pool \o
               (IF IsReply(acq.acq_event) THEN <<acq.acq_event>> ELSE <<>>)
    IN /\ \A i \in 1..Len(got) :
            got[i].fd = IF arcan_shmif_descrevent(got[i]) THEN got[i].tag
                        ELSE BADFD
       /\ \A i, j \in 1..Len(got) :
            i # j /\ got[i].fd # BADFD => got[i].fd # got[j].fd
       /\ \A k \in 1..Len(DescrOnly(got)) : DescrOnly(got)[k].fd = k

C23_Witness ==
  /\ acq.pc = "waiting"
  /\ Len(acq.pool) = 3
  /\ acq.pool[1].kind = "BCHUNK_IN"
  /\ acq.pool[2].kind = "DISPLAYHINT"
  /\ acq.pool[3].kind = "BCHUNK_IN"
  /\ Len(acq.sock) = 1

(***************************************************************************)
(* SpecExt: the extended (GPU) context of one connection, from             *)
(* egl-dri-rnode.c: the four extension entry points kept in statics of the *)
(* process, arcan_shmifext_egl and _setup, the context slots of            *)
(* add_context / arcan_shmifext_swap_context, the handle export of         *)
(* arcan_shmifext_gltex_handle and the two ways arcan_shmifext_signal      *)
(* delivers a frame.  EGL and the rendering layer (agp) are an             *)
(* environment whose calls succeed or fail as the inputs of the actions    *)
(* say; setup is called with builtin_fbo 0, 1 or 2.  SpecCtx is the same   *)
(* context under the calls that manage its context slots.                  *)
(***************************************************************************)
\* number of calls of arcan_shmifext_gltex_handle and _signal explored
MaxCalls == 2
\* number of eglCreateContext calls explored
MaxCtx == 3

\* the four extension entry points check_functions looks up
FnNames == {"create_image", "destroy_image", "query_image_format",
            "export_dmabuf"}

\* results of a lookup function: the entry points it resolves
Lookups == {FnNames, FnNames \ {"export_dmabuf"}, {}}

\* size of alt_contexts
ALT_CONTEXTS == 64

SHMIFEXT_BUILTIN == "BUILTIN"

SHMIFEXT_NO_DISPLAY == 2
SHMIFEXT_NO_CONFIG == 4
SHMIFEXT_NO_CONTEXT == 5
SHMIFEXT_ALREADY_SETUP == 6
SHMIFEXT_OUT_OF_MEMORY == 7
SHMIFEXT_OK == 8

\* 1 << i
Shl(i) == 2 ^ i

\* what the last call did, for the properties below
NoCall ==
  [op |-> "none", rv |-> 0, path |-> "none", tex |-> "none",
   passed |-> FALSE, attempt |-> FALSE, exportfail |-> FALSE,
   nopass |-> FALSE, fn |-> {}, cur |-> "none", signalled |-> FALSE,
   made |-> 0, slots |-> {}, builtin |-> FALSE, xferfail |-> FALSE,
   deadbefore |-> FALSE]

\* a context whose state does not follow ARCAN_VIDEO_NO_FDPASS
Internal0_pass(env) ==
  [rtgt_a |-> "none", rtgt_b |-> "none", rtgt_cur |-> "none",
   buf_cur |-> "none", nopass |-> FALSE, image |-> 0, dmabuf |-> BADFD,
   ctx_alloc |-> {}, alt_contexts |-> [i \in 0..(ALT_CONTEXTS - 1) |-> 0],
   managed |-> FALSE, context |-> 0, context_ind |-> 0, display |-> FALSE]

\* struct shmif_ext_hidden_int after memset and the two stores of
\* arcan_shmifext_egl
Internal0(env) ==
  [rtgt_a |-> "none", rtgt_b |-> "none", rtgt_cur |-> "none",
   buf_cur |-> "none", nopass |-> env, image |-> 0, dmabuf |-> BADFD,
   ctx_alloc |-> {}, alt_contexts |-> [i \in 0..(ALT_CONTEXTS - 1) |-> 0],
   managed |-> FALSE, context |-> 0, context_ind |-> 0, display |-> FALSE]

InitExt ==
  /\ TransportInit
  /\ att = NotInUse
  /\ aud = NotInUse
  /\ vid = NotInUse
  /\ srv = NotInUse
  /\ acq = NotInUse
  /\ life = NotInUse
  /\ pix = NotInUse
  /\ scr = NotInUse
  /\ \E env \in BOOLEAN, impl \in {FnNames, {}} :
       ext = [fn |-> {}, env |-> env, impl |-> impl, internal |-> FALSE,
              active_fd |-> FALSE, in |-> Internal0(env), nimg |-> 0,
              nfd |-> 0, nctx |-> 0, ncalls |-> 0, destroyed |-> <<>>,
              closed |-> <<>>, crashed |-> FALSE, dead |-> FALSE,
              sticky |-> "none", last |-> NoCall]

\* the statics after check_functions has looked the four symbols up
check_functions(e, lookup) == [e EXCEPT !.fn = lookup]

\* gbm_drop: destroy the image, close the descriptor, free the context
gbm_drop(e) ==
  IF ~e.internal THEN e
  ELSE IF e.in.image # 0 /\ "destroy_image" \notin e.fn
  THEN [e EXCEPT !.crashed = TRUE]
  ELSE [e EXCEPT !.destroyed = IF e.in.image # 0 THEN Append(@, e.in.image)
                               ELSE @,
                 !.closed = IF e.in.dmabuf # BADFD THEN Append(@, e.in.dmabuf)
                            ELSE @,
                 !.in = Internal0(e.env),
                 !.internal = FALSE]

\* arcan_shmifext_egl on the record: [e, ok]
shmifext_egl(e, lookup, opened) ==
  IF ~e.active_fd /\ e.internal
  THEN [e |-> check_functions(e, lookup), ok |-> lookup = FnNames]
  ELSE IF ~e.active_fd /\ ~opened
  THEN [e |-> e, ok |-> FALSE]
  ELSE LET e1 == [e EXCEPT !.active_fd = TRUE]
           e2 == IF e1.internal THEN e1
                 ELSE [e1 EXCEPT !.internal = TRUE, !.in = Internal0(e.env)]
           e3 == check_functions(e2, lookup)
       IN IF e3.fn # FnNames
          THEN [e |-> gbm_drop(e3), ok |-> FALSE]
          ELSE [e |-> e3, ok |-> TRUE]

\* a client that sets EGL up itself calls arcan_shmifext_egl
arcan_shmifext_egl(lookup, opened) ==
  /\ ~ext.crashed
  /\ LET r == shmifext_egl(ext, lookup, opened)
     IN ext' = [r.e EXCEPT !.last = [NoCall EXCEPT !.op = "egl",
                                       !.rv = IF r.ok THEN 1 ELSE 0,
                                       !.fn = r.e.fn]]
  /\ UNCHANGED <<tvars, att, aud, vid, srv, acq, life, pix, scr>>

\* another connection of the process calls arcan_shmifext_egl: the statics
\* are those of the process
other_shmifext_egl(lookup) ==
  /\ ~ext.crashed
  /\ ext.fn # lookup
  /\ ext' = [check_functions(ext, lookup) EXCEPT !.last = NoCall]
  /\ UNCHANGED <<tvars, att, aud, vid, srv, acq, life, pix, scr>>

\* get_egl_context: [ok, dst]
get_egl_context(in, ind) ==
  IF ind >= ALT_CONTEXTS THEN [ok |-> FALSE, dst |-> 0]
  ELSE IF ~in.managed \/ ind \notin in.ctx_alloc THEN [ok |-> FALSE, dst |-> 0]
  ELSE [ok |-> TRUE, dst |-> in.alt_contexts[Shl(ind) - 1]]

\* the free slots add_context may take
FreeSlots(in) == (0..(ALT_CONTEXTS - 1)) \ in.ctx_alloc

\* add_context: [e, res, ind, made]; the new context is stored at index
\* (1 << i) - 1 and looked for at index i << i
add_context(e, cfg, created) ==
  LET free == FreeSlots(e.in)
      i == CHOOSE x \in free : \A y \in free : x <= y
      c == IF created THEN e.nctx + 1 ELSE 0
      e1 == [e EXCEPT !.nctx = IF created THEN @ + 1 ELSE @,
                      !.in.alt_contexts[Shl(i) - 1] = c]
  IN IF free = {}
     THEN [e |-> e, res |-> SHMIFEXT_OUT_OF_MEMORY, ind |-> 0, made |-> 0]
     ELSE IF Shl(i) - 1 >= ALT_CONTEXTS \/ i * Shl(i) >= ALT_CONTEXTS
     THEN [e |-> [e EXCEPT !.crashed = TRUE], res |-> SHMIFEXT_NO_CONTEXT,
           ind |-> 0, made |-> 0]
     ELSE IF ~cfg
     THEN [e |-> e, res |-> SHMIFEXT_NO_CONFIG, ind |-> 0, made |-> 0]
     ELSE IF e1.in.alt_contexts[i * Shl(i)] = 0
     THEN [e |-> e1, res |-> SHMIFEXT_NO_CONTEXT, ind |-> 0, made |-> c]
     ELSE [e |-> [e1 EXCEPT !.in.ctx_alloc = @ \cup {i}],
           res |-> SHMIFEXT_OK, ind |-> i + 1, made |-> c]

\* arcan_shmifext_swap_context on the record
swap_context(e, context) ==
  IF ~e.internal \/ ~e.in.display \/ context > ALT_CONTEXTS \/ context = 0
  THEN e
  ELSE LET g == get_egl_context(e.in, context - 1)
       IN IF ~g.ok THEN e
          ELSE [e EXCEPT !.in.context_ind = context - 1,
                         !.in.context = g.dst]

\* the buffers and rendertargets arcan_shmifext_setup builds
SetupBuffers(in, builtin_fbo, vidp_pack) ==
  IF builtin_fbo = 0 /\ vidp_pack = 0 THEN in
  ELSE LET b == [in EXCEPT !.buf_cur = "a"]
       IN IF builtin_fbo = 0 THEN b
          ELSE [b EXCEPT !.rtgt_a = b.buf_cur,
                         !.rtgt_b = IF builtin_fbo = 2 THEN b.buf_cur
                                    ELSE "none",
                         !.rtgt_cur = "rtgt_a"]

\* arcan_shmifext_setup
arcan_shmifext_setup(builtin_fbo, vidp_pack, opened, cfg, created) ==
  /\ ~ext.crashed
  /\ ext.nctx < MaxCtx
  /\ ~(builtin_fbo # 0 /\ vidp_pack # 0)
  /\ LET done(e, rv, made) ==
           [e EXCEPT !.last = [NoCall EXCEPT !.op = "setup", !.rv = rv,
                                 !.made = made, !.fn = e.fn,
                                 !.slots = ext.in.ctx_alloc]]
         r == shmifext_egl(ext, ext.impl, opened)
         e1 == [r.e EXCEPT !.in.display = TRUE, !.in.managed = TRUE]
         a == add_context(e1, cfg, created)
         e2 == swap_context(a.e, a.ind)
         e3 == [e2 EXCEPT !.in = SetupBuffers(@, builtin_fbo, vidp_pack)]
     IN IF ext.internal /\ ext.in.display
        THEN ext' = done(ext, SHMIFEXT_ALREADY_SETUP, 0)
        ELSE IF ~r.ok THEN ext' = done(r.e, SHMIFEXT_NO_DISPLAY, 0)
        ELSE IF a.res # SHMIFEXT_OK THEN ext' = done(a.e, a.res, a.made)
        ELSE ext' = done(e3, SHMIFEXT_OK, a.made)
  /\ UNCHANGED <<tvars, att, aud, vid, srv, acq, life, pix, scr>>

\* arcan_shmifext_add_context
arcan_shmifext_add_context(cfg, created) ==
  /\ ~ext.crashed
  /\ ext.nctx < MaxCtx
  /\ LET a == add_context(ext, cfg, created)
         rv == IF a.res # SHMIFEXT_OK THEN 0 ELSE a.ind
     IN IF ~ext.internal \/ ~ext.in.display
        THEN ext' = [ext EXCEPT !.last = [NoCall EXCEPT !.op = "add_context",
                                            !.slots = ext.in.ctx_alloc]]
        ELSE ext' = [a.e EXCEPT !.last = [NoCall EXCEPT !.op = "add_context",
                                            !.rv = rv, !.made = a.made,
                                            !.slots = ext.in.ctx_alloc]]
  /\ UNCHANGED <<tvars, att, aud, vid, srv, acq, life, pix, scr>>

\* arcan_shmifext_swap_context
arcan_shmifext_swap_context(context) ==
  /\ ~ext.crashed
  /\ swap_context(ext, context) # ext
  /\ ext' = [swap_context(ext, context) EXCEPT
               !.last = [NoCall EXCEPT !.op = "swap_context", !.rv = context]]
  /\ UNCHANGED <<tvars, att, aud, vid, srv, acq, life, pix, scr>>

\* arcan_shmifext_bufferfail on the record
shmifext_bufferfail(e, st) ==
  [e EXCEPT !.in.nopass = IF e.env THEN TRUE ELSE st]

bufferfail_noenv(st) ==
  /\ ~ext.crashed
  /\ ext.internal
  /\ ext.in.nopass # st
  /\ ext' = [ext EXCEPT !.in.nopass = st,
                        !.last = [NoCall EXCEPT !.op = "bufferfail"]]
  /\ UNCHANGED <<tvars, att, aud, vid, srv, acq, life, pix, scr>>

\* arcan_shmifext_bufferfail: the calls that change the state
arcan_shmifext_bufferfail(st) ==
  /\ ~ext.crashed
  /\ ext.internal
  /\ ext.in.nopass # (ext.env \/ st)
  /\ ext' = [shmifext_bufferfail(ext, st) EXCEPT
               !.last = [NoCall EXCEPT !.op = "bufferfail"]]
  /\ UNCHANGED <<tvars, att, aud, vid, srv, acq, life, pix, scr>>

\* the connection dies
ext_peer_dies ==
  /\ ~ext.crashed
  /\ ~ext.dead
  /\ ext' = [ext EXCEPT !.dead = TRUE, !.last = NoCall]
  /\ UNCHANGED <<tvars, att, aud, vid, srv, acq, life, pix, scr>>

\* the entry points one call of arcan_shmifext_gltex_handle goes through
Called(e, cr, qf, ex) ==
  {"create_image"}
    \cup (IF e.in.image # 0 \/ (cr /\ qf /\ ~ex) THEN {"destroy_image"} ELSE {})
    \cup (IF cr THEN {"query_image_format"} ELSE {})
    \cup (IF cr /\ qf THEN {"export_dmabuf"} ELSE {})

\* arcan_shmifext_gltex_handle on the record: [e, ok].  cr, qf, ex: whether
\* create_image, query_image_format (with one plane) and export_dmabuf
\* succeed.  A call through an entry point that is not resolved ends the
\* process.
gltex_handle(e, cr, qf, ex) ==
  LET e1 == IF e.in.image = 0 THEN e
            ELSE [e EXCEPT !.destroyed = Append(@, e.in.image),
                           !.closed = IF e.in.dmabuf # BADFD
                                      THEN Append(@, e.in.dmabuf) ELSE @,
                           !.in.dmabuf = BADFD]
      img == e.nimg + 1
      e2 == IF cr THEN [e1 EXCEPT !.nimg = img, !.in.image = img]
            ELSE [e1 EXCEPT !.in.image = 0]
  IN IF ~(Called(e, cr, qf, ex) \subseteq e.fn)
     THEN [e |-> [e EXCEPT !.crashed = TRUE], ok |-> FALSE]
     ELSE IF ~cr \/ ~qf THEN [e |-> e2, ok |-> FALSE]
     ELSE IF ~ex
     THEN [e |-> [e2 EXCEPT !.destroyed = Append(@, img)], ok |-> FALSE]
     ELSE [e |-> [e2 EXCEPT !.nfd = @ + 1, !.in.dmabuf = e.nfd + 1],
           ok |-> TRUE]

\* a client exports a texture of its own
arcan_shmifext_gltex_handle(cr, qf, ex) ==
  /\ ~ext.crashed
  /\ ext.ncalls < MaxCalls
  /\ LET g == gltex_handle([ext EXCEPT !.ncalls = @ + 1], cr, qf, ex)
         l == [NoCall EXCEPT !.op = "gltex_handle", !.fn = ext.fn,
                             !.attempt = ext.internal, !.tex = "user"]
     IN IF ~ext.internal
        THEN ext' = [ext EXCEPT !.ncalls = @ + 1, !.last = [l EXCEPT !.rv = 1]]
        ELSE ext' = [g.e EXCEPT !.last = [l EXCEPT
                                            !.rv = IF g.ok THEN 1 ELSE 0,
                                            !.exportfail = ~g.ok]]
  /\ UNCHANGED <<tvars, att, aud, vid, srv, acq, life, pix, scr>>

\* the slot that is current: a rendertarget, or a buffer without one
Current(in) == IF in.rtgt_cur # "none" THEN in.rtgt_cur ELSE in.buf_cur

\* the texture the producer renders or uploads to next
NextTarget(in) ==
  IF in.rtgt_cur = "rtgt_a" THEN in.rtgt_a
  ELSE IF in.rtgt_cur = "rtgt_b" THEN in.rtgt_b
  ELSE in.buf_cur

\* agp_rendertarget_swap of the current rendertarget: the texture of its
\* colour attachment
agp_rendertarget_swap(in) == NextTarget(in)

\* the SHMIFEXT_BUILTIN part of arcan_shmifext_signal: [in, tex, fallback]
SignalBuiltin(in) ==
  IF in.rtgt_cur = "none" /\ in.nopass
  THEN [in |-> in, tex |-> SHMIFEXT_BUILTIN, fallback |-> TRUE]
  ELSE IF in.rtgt_cur = "none"
  THEN [in |-> [in EXCEPT !.buf_cur = IF @ = "a" THEN "b" ELSE "a"],
        tex |-> in.buf_cur, fallback |-> FALSE]
  ELSE [in |-> IF in.rtgt_b = "none" THEN in
               ELSE [in EXCEPT !.rtgt_cur = IF @ = "rtgt_a" THEN "rtgt_b"
                                            ELSE "rtgt_a"],
        tex |-> agp_rendertarget_swap(in), fallback |-> FALSE]

\* the test that sends arcan_shmifext_signal to the readback
NoExport(in, fn) == in.nopass \/ "create_image" \notin fn

\* arcan_shmifext_signal.  display 0: the display of the context; xfer:
\* whether the descriptor reaches the peer (arcan_shmif_signalhandle).
arcan_shmifext_signal(display, tex_id, cr, qf, ex, xfer) ==
  /\ ~ext.crashed
  /\ ext.ncalls < MaxCalls
  /\ tex_id = SHMIFEXT_BUILTIN /\ ext.internal /\ ext.in.managed
       => ext.in.buf_cur # "none"
  /\ LET in == ext.in
         builtin == tex_id = SHMIFEXT_BUILTIN
         l == [NoCall EXCEPT !.op = "signal", !.nopass = in.nopass,
                             !.fn = ext.fn, !.cur = Current(in),
                             !.builtin = builtin, !.deadbefore = ext.dead]
         b == IF builtin THEN SignalBuiltin(in)
              ELSE [in |-> in, tex |-> tex_id, fallback |-> FALSE]
         e1 == [ext EXCEPT !.in = b.in, !.ncalls = @ + 1]
         g == gltex_handle(e1, cr, qf, ex)
         readback == [l EXCEPT !.path = "readback", !.tex = b.tex,
                               !.signalled = TRUE]
     IN IF ~ext.internal \/ (display = 0 /\ ~in.display)
             \/ (builtin /\ ~in.managed)
        THEN ext' = [ext EXCEPT !.ncalls = @ + 1, !.last = [l EXCEPT !.rv = -1]]
        ELSE IF b.fallback \/ NoExport(b.in, ext.fn)
        THEN ext' = [e1 EXCEPT !.last = readback]
        ELSE IF g.e.crashed
        THEN ext' = [g.e EXCEPT !.last = [l EXCEPT !.attempt = TRUE]]
        ELSE IF ~g.ok
        THEN ext' = [g.e EXCEPT !.last = [readback EXCEPT !.attempt = TRUE,
                                                          !.exportfail = TRUE]]
        ELSE ext' = [g.e EXCEPT !.last = [l EXCEPT !.attempt = TRUE,
                                            !.path = "handle", !.tex = b.tex,
                                            !.passed = TRUE,
                                            !.xferfail = ~xfer,
                                            !.signalled = TRUE]]
  /\ UNCHANGED <<tvars, att, aud, vid, srv, acq, life, pix, scr>>

ExtEgl ==
  \E l \in Lookups, o \in BOOLEAN :
    /\ ext.active_fd => o
    /\ arcan_shmifext_egl(l, o)

OtherEgl == \E l \in Lookups : other_shmifext_egl(l)

\* arguments and outcomes of a setup; those of a call that is refused as
\* ALREADY_SETUP make no difference
ExtSetup ==
  \E f \in 0..2, p \in 0..1, c, k \in BOOLEAN :
    /\ ext.internal /\ ext.in.display => f = 0 /\ p = 0 /\ c /\ k
    /\ ~c => k
    /\ arcan_shmifext_setup(f, p, TRUE, c, k)

ExtAddContext == \E c, k \in BOOLEAN : arcan_shmifext_add_context(c, k)

ExtSwapContext == \E c \in 0..(MaxCtx + 1) : arcan_shmifext_swap_context(c)

ExtBufferfail == \E st \in BOOLEAN : arcan_shmifext_bufferfail(st)

\* outcomes of an export: the calls after the first failing one do not happen
Outcomes ==
  { o \in [cr : BOOLEAN, qf : BOOLEAN, ex : BOOLEAN, xfer : BOOLEAN] :
      /\ ~o.cr => o.qf
      /\ ~o.qf => o.ex
      /\ ~o.ex => o.xfer }

ExtGltexHandle ==
  \E o \in {x \in Outcomes : x.xfer} :
    arcan_shmifext_gltex_handle(o.cr, o.qf, o.ex)

ExtSignal ==
  \E d \in 0..1, t \in {SHMIFEXT_BUILTIN, "user"}, o \in Outcomes :
    /\ ~ext.internal \/ NoExport(ext.in, ext.fn) => o.cr /\ o.xfer
    /\ arcan_shmifext_signal(d, t, o.cr, o.qf, o.ex, o.xfer)

NextExt ==
  \/ ExtEgl
  \/ OtherEgl
  \/ ExtSetup
  \/ ExtBufferfail
  \/ ExtGltexHandle
  \/ ExtSignal
  \/ ext_peer_dies

SpecExt == InitExt /\ [][NextExt]_vars

NextCtx ==
  \/ ExtSetup
  \/ ExtAddContext
  \/ ExtSwapContext

SpecCtx == InitExt /\ [][NextCtx]_vars

C25_SignalOutcomes ==
  ext.last.op = "signal" /\ ~ext.crashed =>
    \/ /\ ext.last.signalled
       /\ ext.last.rv # -1
       /\ ext.last.path = "handle"
       /\ ext.last.passed
    \/ /\ ext.last.signalled
       /\ ext.last.rv # -1
       /\ ext.last.path = "readback"
       /\ ext.last.tex # SHMIFEXT_BUILTIN
    \/ /\ ~ext.last.signalled
       /\ ext.last.rv = -1

\* C26: every exported image is destroyed at most once and every exported
\* descriptor closed at most once, and at most one image is live and at
\* most one descriptor open at any time.
C26_OneHandleInFlight ==
  /\ \A i \in 1..ext.nimg : Count(ext.destroyed, i) <= 1
  /\ \A f \in 1..ext.nfd : Count(ext.closed, f) <= 1
  /\ Cardinality({i \in 1..ext.nimg : Count(ext.destroyed, i) = 0}) <= 1
  /\ Cardinality({f \in 1..ext.nfd : Count(ext.closed, f) = 0}) <= 1

\* a context with two slots: two rendertargets, or two buffers without one
TwoSlots(in) ==
  in.rtgt_b # "none" \/ (in.rtgt_cur = "none" /\ in.buf_cur # "none")

\* C27: with two slots, every accepted arcan_shmifext_signal of
\* SHMIFEXT_BUILTIN makes the other slot the current one, whichever path
\* delivers the frame, and the texture handed to the consumer is not the
\* one the producer writes next.
C27_DoubleBuffering ==
  /\ ext.last.op = "signal"
  /\ ext.last.builtin
  /\ ext.last.rv # -1
  /\ ~ext.crashed
  /\ TwoSlots(ext.in)
  => /\ Current(ext.in) # ext.last.cur
     /\ NextTarget(ext.in) # ext.last.tex

\* C28: arcan_shmifext_signal enters the export of a handle only while all
\* four extension entry points are resolved.
C28_ExportNeedsAllFour ==
  ext.last.op = "signal" /\ ext.last.attempt => ext.last.fn = FnNames

\* C29: a successful setup leaves its context as reference 1; an
\* arcan_shmifext_add_context whose context was created returns a non-zero
\* reference that was not allocated before and that resolves to that
\* context; a call that returns 0 allocates no slot.
C29_ContextReferences ==
  /\ (ext.last.op = "setup" /\ ext.last.rv = SHMIFEXT_OK =>
        /\ get_egl_context(ext.in, 0) = [ok |-> TRUE, dst |-> ext.last.made]
        /\ ext.in.context = ext.last.made)
  /\ (ext.last.op = "add_context" /\ ext.last.made # 0 =>
        /\ ext.last.rv # 0
        /\ (ext.last.rv - 1) \notin ext.last.slots
        /\ get_egl_context(ext.in, ext.last.rv - 1)
             = [ok |-> TRUE, dst |-> ext.last.made])
  /\ (ext.last.op = "add_context" /\ ext.last.rv = 0 =>
        ext.in.ctx_alloc = ext.last.slots)

(***************************************************************************)
(* SpecNopass: the no-descriptor-passing state of the extended context.    *)
(* The context is created (and dropped, when the lookup of the entry       *)
(* points fails), arcan_shmifext_bufferfail is called with either argument *)
(* and frames are signalled.  sticky keeps what the last bufferfail call   *)
(* of the connection left behind, and last.nopass its argument.            *)
(***************************************************************************)
bufferfail_call(st) ==
  /\ ~ext.crashed
  /\ ext.internal
  /\ ext' = [shmifext_bufferfail(ext, st) EXCEPT
               !.sticky = IF ext.env \/ st THEN "on" ELSE "off",
               !.last = [NoCall EXCEPT !.op = "bufferfail", !.nopass = st]]
  /\ UNCHANGED <<tvars, att, aud, vid, srv, acq, life, pix, scr>>

BufferfailCall == \E st \in BOOLEAN : bufferfail_call(st)

NextNopass ==
  \/ ExtEgl
  \/ ExtSetup
  \/ BufferfailCall
  \/ ExtSignal

SpecNopass == InitExt /\ [][NextNopass]_vars

C36_FailedExportLeavesNothing ==
  /\ (ext.last.op = "gltex_handle" /\ ext.last.attempt /\ ext.last.rv = 0
        /\ ~ext.crashed) =>
       (ext.in.image = 0 /\ ext.in.dmabuf = BADFD)
  /\ \A i \in 1..ext.nimg : Count(ext.destroyed, i) <= 1
  /\ \A f \in 1..ext.nfd : Count(ext.closed, f) <= 1

(***************************************************************************)
(* SpecLife: the lifecycle of one connection.  The client connects and     *)
(* registers, the server answers the registration with ACTIVATE as the     *)
(* shmifsrv test server does, the client becomes active when it sees the   *)
(* answer, and either side may drop or die at any time.  The state         *)
(* machine itself is modelled from the design description.                 *)
(***************************************************************************)
\* number of further events each side sends
MaxLifeEv == 2

LifeStates == <<"DISCONNECTED", "HANDSHAKING", "PREROLL", "ACTIVE", "DEAD">>

\* the place of a state in the order of the lifecycle
Rank(s) == CHOOSE i \in 1..Len(LifeStates) : LifeStates[i] = s

\* what may cause a transition
Causes == {"connect", "drop", "peer signal", "peer death"}

InitLife ==
  /\ TransportInit
  /\ att = NotInUse
  /\ aud = NotInUse
  /\ vid = NotInUse
  /\ srv = NotInUse
  /\ acq = NotInUse
  /\ ext = NotInUse
  /\ pix = NotInUse
  /\ scr = NotInUse
  /\ life = [state |-> "DISCONNECTED", toserver |-> <<>>, toclient |-> <<>>,
             hist |-> <<"DISCONNECTED">>, cause |-> <<>>, nsent |-> 0,
             nsrv |-> 0]

\* the connection enters state s because of c
Move(l, s, c) ==
  [l EXCEPT !.state = s, !.hist = Append(@, s), !.cause = Append(@, c)]

life_connect_again ==
  /\ life.state \in {"DISCONNECTED", "DEAD"}
  /\ life' = [Move(life, "HANDSHAKING", "connect") EXCEPT
                !.toserver = Append(@, REGISTER)]
  /\ UNCHANGED <<tvars, att, aud, vid, srv, acq, ext, pix, scr>>

\* connect: the client attaches and sends its registration
life_connect ==
  /\ life.state = "DISCONNECTED"
  /\ life' = [Move(life, "HANDSHAKING", "connect") EXCEPT
                !.toserver = Append(@, REGISTER)]
  /\ UNCHANGED <<tvars, att, aud, vid, srv, acq, ext, pix, scr>>

\* the client sends a further event
life_client_send ==
  /\ life.state \in {"HANDSHAKING", "PREROLL", "ACTIVE"}
  /\ life.nsent < MaxLifeEv
  /\ life' = [life EXCEPT !.toserver = Append(@, MESSAGE), !.nsent = @ + 1]
  /\ UNCHANGED <<tvars, att, aud, vid, srv, acq, ext, pix, scr>>

\* the server sends an input event
life_server_send ==
  /\ life.state \in {"HANDSHAKING", "PREROLL", "ACTIVE"}
  /\ life.nsrv < MaxLifeEv
  /\ life' = [life EXCEPT !.toclient = Append(@, IOEVENT), !.nsrv = @ + 1]
  /\ UNCHANGED <<tvars, att, aud, vid, srv, acq, ext, pix, scr>>

\* the server dequeues one event; a REGISTER is the PREROLL stage and is
\* answered with ACTIVATE
life_server_dequeue ==
  /\ life.state \notin {"DISCONNECTED", "DEAD"}
  /\ life.toserver # <<>>
  /\ LET e == Head(life.toserver)
         l == [life EXCEPT !.toserver = Tail(@)]
     IN IF e = REGISTER
        THEN life' = [(IF l.state = "HANDSHAKING"
                       THEN Move(l, "PREROLL", "peer signal") ELSE l)
                      EXCEPT !.toclient = Append(@, ACTIVATE)]
        ELSE life' = l
  /\ UNCHANGED <<tvars, att, aud, vid, srv, acq, ext, pix, scr>>

\* the client dequeues one event; ACTIVATE ends the PREROLL stage
life_client_dequeue ==
  /\ life.state \notin {"DISCONNECTED", "DEAD"}
  /\ life.toclient # <<>>
  /\ LET e == Head(life.toclient)
         l == [life EXCEPT !.toclient = Tail(@)]
     IN IF e = ACTIVATE /\ l.state = "PREROLL"
        THEN life' = Move(l, "ACTIVE", "peer signal")
        ELSE life' = l
  /\ UNCHANGED <<tvars, att, aud, vid, srv, acq, ext, pix, scr>>

\* drop: a local call of either side ends the connection
life_drop ==
  /\ life.state # "DEAD"
  /\ life' = Move(life, "DEAD", "drop")
  /\ UNCHANGED <<tvars, att, aud, vid, srv, acq, ext, pix, scr>>

\* the death of the peer is seen in a failed wait or poll
life_peer_death ==
  /\ life.state \notin {"DISCONNECTED", "DEAD"}
  /\ life' = Move(life, "DEAD", "peer death")
  /\ UNCHANGED <<tvars, att, aud, vid, srv, acq, ext, pix, scr>>

NextLife ==
  \/ life_connect
  \/ life_client_send
  \/ life_server_send
  \/ life_server_dequeue
  \/ life_client_dequeue
  \/ life_drop
  \/ life_peer_death

SpecLife == InitLife /\ [][NextLife]_vars

C31_OffsetUnderSemaphore ==
  aud.pc = "copy" => aud.dstofs = Len(aud.pre)

\* C32: right after a batch that fits beside the bytes in use, the used part
\* of the buffer is the old bytes, unchanged, followed by the batch,
\* abufused has grown by the size of the batch and nothing was written
\* outside the audio buffer.
C32_AppendInPlace ==
  (aud.fresh /\ aud.overflow <= 0) =>
    /\ AudioContent(aud) = aud.pre \o aud.data
    /\ aud.abufused = Len(aud.pre) + aud.new_s
    /\ ~aud.oob


(***************************************************************************)
(* SpecHandoff: the frame loop, the resize steps and the video gate of     *)
(* SpecVideo without the server's input events, which have no part in the  *)
(* handoff of a frame.                                                     *)
(***************************************************************************)
NextHandoff ==
  \/ run_setup
  \/ run_flush
  \/ VidcbEnter
  \/ vidcb_store_w
  \/ vidcb_store_h
  \/ vidcb_store_resized
  \/ vidcb_frame
  \/ vidcb_store_vready
  \/ vidcb_semcheck
  \/ resize_see
  \/ resize_read_w
  \/ resize_read_h
  \/ resize_ack
  \/ video_take
  \/ video_release
  \/ ServerDrop

SpecHandoff == InitVideo /\ [][NextHandoff]_vars

(***************************************************************************)
(* C34: the handoff of a video frame is mutually exclusive.  The           *)
(* video-ready flag is up only while the client, with the whole frame      *)
(* written, is blocked on the video semaphore (or has ended); the client   *)
(* is never in its pixel loop, and has never written a frame, while the    *)
(* server reads the video buffer; it starts the next frame only when the   *)
(* server has read and released every earlier one; and the server reads    *)
(* the buffer only while the flag is up.                                   *)
(***************************************************************************)
C34_VideoHandoffExclusive ==
  /\ vready => vid.pc \in {"vsync", "exit"}
  /\ vid.cpc = "vread" => (vready /\ vid.pc \in {"vsync", "exit"})
  /\ ~vid.torn
  /\ vid.pc \in {"frame", "vready"} =>
       vid.nread = vid.nframes - (IF vid.pc = "vready" THEN 1 ELSE 0)
  /\ vid.nread <= vid.nframes

\* the server reads the second frame, having read and released the first,
\* while the client is blocked on the video semaphore
C34_Witness ==
  /\ vid.cpc = "vread"
  /\ vid.nframes = 2
  /\ vid.nread = 1
  /\ vid.pc = "vsync"

(***************************************************************************)
(* SpecPixel: the pixel loop of libretro_vidcb.  The core hands over a     *)
(* frame of 16-bit pixels, height rows of width pixels, pitch bytes from   *)
(* one row to the next; the loop stores one 32-bit pixel for each of them, *)
(* one after the other, into the video buffer of the page.                 *)
(***************************************************************************)
MaxPixDim == 2

\* the 16-bit values the frames of the core are made of
TestPixels ==
  <<0, 65535, 32768, 31744, 992, 31, 32767, 33825, 4660, 43981>>

RECURSIVE BitAnd(_, _)
\* a & b
BitAnd(a, b) ==
  IF a = 0 \/ b = 0 THEN 0
  ELSE ((a % 2) * (b % 2)) + 2 * BitAnd(a \div 2, b \div 2)

RECURSIVE BitOr(_, _)
\* a | b
BitOr(a, b) ==
  IF a = 0 THEN b
  ELSE IF b = 0 THEN a
  ELSE (IF a % 2 = 1 \/ b % 2 = 1 THEN 1 ELSE 0) + 2 * BitOr(a \div 2, b \div 2)

\* a >> n
Shr(a, n) == a \div (2 ^ n)

\* a value stored into a uint8_t
U8(a) == a % 256

\* the uint32_t whose upper 16 bits are hi and whose lower 16 bits are lo
U32(hi, lo) == [hi |-> hi % 65536, lo |-> lo % 65536]

\* the 32-bit pixel with the red and the blue byte in each other's place
vidcb_pixel_bgr(val) ==
  LET r == U8(Shr(BitAnd(val, 31744), 10) * Shl(3))
      g == U8(Shr(BitAnd(val, 992), 5) * Shl(3))
      b == U8(BitAnd(val, 31) * Shl(3))
  IN  U32(BitOr(255 * Shl(8), r), BitOr(g * Shl(8), b))

\* the 32-bit pixel the loop stores for the 16-bit pixel val:
\* 0xff << 24 | b << 16 | g << 8 | r
vidcb_pixel(val) ==
  LET r == U8(Shr(BitAnd(val, 31744), 10) * Shl(3))
      g == U8(Shr(BitAnd(val, 992), 5) * Shl(3))
      b == U8(BitAnd(val, 31) * Shl(3))
  IN  U32(BitOr(255 * Shl(8), b), BitOr(g * Shl(8), r))

\* a frame of the core: its cells are taken from TestPixels in turn,
\* starting at place seed
Frame(n, seed) ==
  [i \in 0..(n - 1) |-> TestPixels[((seed + i) % Len(TestPixels)) + 1]]

InitPixel ==
  /\ TransportInit
  /\ att = NotInUse
  /\ aud = NotInUse
  /\ vid = NotInUse
  /\ srv = NotInUse
  /\ acq = NotInUse
  /\ ext = NotInUse
  /\ life = NotInUse
  /\ scr = NotInUse
  /\ \E width \in 1..MaxPixDim, height \in 1..MaxPixDim, pad \in 0..2,
        seed \in 0..(Len(TestPixels) - 1) :
       LET pitch == 2 * width + pad
       IN  pix = [data |-> Frame(height * Shr(pitch, 1), seed),
                  width |-> width, height |-> height, pitch |-> pitch,
                  buf |-> 0, x |-> 0, y |-> 0, dbuf |-> <<>>,
                  vready |-> FALSE]

\* lines 113-121: one round of the inner loop
vidcb_store ==
  /\ ~pix.vready
  /\ pix.y < pix.height
  /\ pix.x < pix.width
  /\ LET val == pix.data[pix.buf + pix.x]
     IN  pix' = [pix EXCEPT !.dbuf = Append(@, vidcb_pixel(val)),
                            !.x = @ + 1]
  /\ UNCHANGED <<tvars, att, aud, vid, srv, acq, ext, life, scr>>

\* lines 112, 123: the inner loop is through, on to the next row
vidcb_row ==
  /\ ~pix.vready
  /\ pix.y < pix.height
  /\ pix.x >= pix.width
  /\ pix' = [pix EXCEPT !.buf = @ + Shr(pix.pitch, 1), !.y = @ + 1, !.x = 0]
  /\ UNCHANGED <<tvars, att, aud, vid, srv, acq, ext, life, scr>>

\* line 126: the frame is complete
vidcb_vready ==
  /\ ~pix.vready
  /\ pix.y >= pix.height
  /\ pix' = [pix EXCEPT !.vready = TRUE]
  /\ UNCHANGED <<tvars, att, aud, vid, srv, acq, ext, life, scr>>

NextPixel ==
  \/ vidcb_store
  \/ vidcb_row
  \/ vidcb_vready

SpecPixel == InitPixel /\ [][NextPixel]_vars

\* the 16-bit pixel of the frame the k-th stored pixel was made from
SourceOf(k) ==
  pix.data[((k - 1) \div pix.width) * (pix.pitch \div 2) + ((k - 1) % pix.width)]

\* C33: every pixel stored by the loop has 0xFF as its top byte, the red
\* field (bits 10-14) of its source pixel times 8 as its lowest byte, the
\* green field (bits 5-9) times 8 as its second and the blue field (bits
\* 0-4) times 8 as its third byte; bit 15 of the source pixel makes no
\* difference; a complete frame has width * height stored pixels.
C33_PixelNormalisation ==
  /\ \A k \in 1..Len(pix.dbuf) :
       LET v == SourceOf(k)
           p == pix.dbuf[k]
       IN  /\ p.hi \div 256 = 255
           /\ p.lo % 256 = ((v \div 1024) % 32) * 8
           /\ p.lo \div 256 = ((v \div 32) % 32) * 8
           /\ p.hi % 256 = (v % 32) * 8
           /\ p = vidcb_pixel((v + 32768) % 65536)
  /\ pix.vready => Len(pix.dbuf) = pix.width * pix.height

\* a complete frame with padded rows that holds a pixel with bit 15 set and
\* three different colour fields
C33_Witness ==
  /\ pix.vready
  /\ pix.width = 2 /\ pix.height = 2 /\ pix.pitch > 2 * pix.width
  /\ \E k \in 1..Len(pix.dbuf) : SourceOf(k) = 43981


(***************************************************************************)
(* SpecScreen: the screen of the terminal emulator (tsm_screen).  The      *)
(* record scr holds the fields of struct tsm_screen that decide where the  *)
(* cursor, the margins and the lines go.  The text of the cells is left    *)
(* out.  A line has an identity once it is linked into the scrollback      *)
(* list: its sb_id; next and prev are the pointers of the linked lines,    *)
(* NULL is 0, and freed holds the lines that line_free has released.       *)
(***************************************************************************)
\* columns and rows a screen may have
MaxCols == 2
MaxRows == 3

\* number of lines that are ever linked into the scrollback list
MaxSbId == 2

\* the largest value of sb_max
MaxSb == 2

\* the value at which the age counter wraps to 0 (tsm_age_t is unsigned)
AgeWrap == 3

SELECTION_TOP == -1

ScreenFlags == {"AUTO_WRAP", "REL_ORIGIN", "FIXED_POS", "ALTERNATE"}

\* the flags that decide where the cursor goes
CursorFlags == {"AUTO_WRAP", "REL_ORIGIN"}

NoSel == [line |-> 0, x |-> 0, y |-> 0]

NoOp == [op |-> "none", ret |-> 0, ages |-> {}]

\* the sb_ids of the lines: one call links at most MaxRows lines
SbIds == 1..(MaxSbId + MaxRows)

InitScreen ==
  /\ TransportInit
  /\ att = NotInUse
  /\ aud = NotInUse
  /\ vid = NotInUse
  /\ srv = NotInUse
  /\ acq = NotInUse
  /\ ext = NotInUse
  /\ life = NotInUse
  /\ pix = NotInUse
  /\ scr = [age_cnt |-> 2 % AgeWrap, age_reset |-> FALSE, age |-> 1,
            size_x |-> MaxCols, size_y |-> MaxRows, line_num |-> MaxRows,
            margin_top |-> 0, margin_bottom |-> MaxRows - 1,
            flags |-> {}, cursor_x |-> 0, cursor_y |-> 0,
            sb_count |-> 0, sb_first |-> 0, sb_last |-> 0, sb_max |-> 0,
            sb_pos |-> 0, sb_last_id |-> 0,
            next |-> [i \in SbIds |-> 0],
            prev |-> [i \in SbIds |-> 0],
            freed |-> {}, evicted |-> <<>>,
            sel_active |-> FALSE, sel_start |-> NoSel, sel_end |-> NoSel,
            last |-> NoOp]

\* inc_age
inc_age(s) ==
  IF (s.age_cnt + 1) % AgeWrap = 0
    THEN [s EXCEPT !.age_reset = TRUE, !.age_cnt = 1 % AgeWrap]
    ELSE [s EXCEPT !.age_cnt = (@ + 1) % AgeWrap]

\* con->age = con->age_cnt
set_age(s) == [s EXCEPT !.age = s.age_cnt]

\* move_cursor, without the ages of the two cells
move_cursor(s, x, y) == [s EXCEPT !.cursor_x = x, !.cursor_y = y]

\* a selection end that pointed to the line is set to the top
sel_drop(pos, line) ==
  IF pos.line = line THEN [pos EXCEPT !.line = 0, !.y = SELECTION_TOP]
  ELSE pos

\* the head of the scrollback list is unlinked and freed (the selection
\* ends and sb_pos are the caller's business)
unlink_first(s) ==
  LET tmp == s.sb_first
      nxt == s.next[tmp]
  IN  [s EXCEPT !.sb_first = nxt,
                !.prev = IF nxt # 0 THEN [@ EXCEPT ![nxt] = 0] ELSE @,
                !.sb_last = IF nxt # 0 THEN @ ELSE 0,
                !.sb_count = @ - 1,
                !.freed = @ \cup {tmp},
                !.evicted = Append(@, tmp)]

\* link_to_scrollback: a line of the screen goes to the end of the
\* scrollback list and gets the next sb_id; a full list loses its head
\* first; with sb_max = 0 the line is freed at once
link_to_scrollback(s) ==
  LET s0 == set_age(s)
      tmp == s0.sb_first
      line == s0.sb_last_id + 1
      full == s0.sb_count >= s0.sb_max
      s1 == IF ~full THEN s0
            ELSE LET u == unlink_first(s0)
                     pos == IF s0.sb_pos # 0
                               /\ (s0.sb_pos = tmp \/ "FIXED_POS" \notin s0.flags)
                            THEN IF s0.next[s0.sb_pos] # 0
                                 THEN s0.next[s0.sb_pos] ELSE line
                            ELSE s0.sb_pos
                 IN [u EXCEPT !.sb_pos = pos,
                              !.sel_start = IF s0.sel_active
                                            THEN sel_drop(@, tmp) ELSE @,
                              !.sel_end = IF s0.sel_active
                                          THEN sel_drop(@, tmp) ELSE @]
  IN IF s0.sb_max = 0 THEN s0
     ELSE [s1 EXCEPT !.sb_last_id = line,
                     !.prev = [@ EXCEPT ![line] = s1.sb_last],
                     !.next = IF s1.sb_last # 0
                              THEN [s1.next EXCEPT ![line] = 0,
                                                   ![s1.sb_last] = line]
                              ELSE [s1.next EXCEPT ![line] = 0],
                     !.sb_first = IF s1.sb_last # 0 THEN @ ELSE line,
                     !.sb_last = line,
                     !.sb_count = @ + 1]

RECURSIVE LinkN(_, _)
\* n lines of the screen go to the scrollback list, one after the other
LinkN(s, n) == IF n = 0 THEN s ELSE LinkN(link_to_scrollback(s), n - 1)

RECURSIVE WalkBack(_, _, _)
\* while (line && ++y < 0) line = line->prev
WalkBack(s, line, y) ==
  IF line # 0 /\ y + 1 < 0 THEN WalkBack(s, s.prev[line], y + 1) ELSE line

\* a selection end on the screen moves up with the lines, into the
\* scrollback list when it leaves the screen
sel_scroll_up(s, pos, num) ==
  IF pos.line = 0 /\ pos.y >= 0
    THEN IF pos.y - num < 0
           THEN [pos EXCEPT !.line = WalkBack(s, s.sb_last, pos.y - num),
                            !.y = SELECTION_TOP]
           ELSE [pos EXCEPT !.y = @ - num]
    ELSE pos

Min(a, b) == IF a < b THEN a ELSE b

\* screen_scroll_up; mem: line_new succeeds
screen_scroll_up(s, num, mem) ==
  IF num = 0 THEN s
  ELSE LET s0 == set_age(s)
           max == s0.margin_bottom + 1 - s0.margin_top
           n == Min(num, max)
           s1 == IF "ALTERNATE" \notin s0.flags /\ mem THEN LinkN(s0, n)
                 ELSE s0
       IN IF s1.sel_active
            THEN [s1 EXCEPT !.sel_start = sel_scroll_up(s1, @, n),
                            !.sel_end = sel_scroll_up(s1, @, n)]
            ELSE s1

\* a selection end on the screen moves down with the lines
sel_scroll_down(pos, num) ==
  IF pos.line = 0 /\ pos.y >= 0 THEN [pos EXCEPT !.y = @ + num] ELSE pos

\* screen_scroll_down
screen_scroll_down(s, num) ==
  IF num = 0 THEN s
  ELSE LET s0 == set_age(s)
           max == s0.margin_bottom + 1 - s0.margin_top
           n == Min(num, max)
       IN IF s0.sel_active
            THEN [s0 EXCEPT !.sel_start = sel_scroll_down(@, n),
                            !.sel_end = sel_scroll_down(@, n)]
            ELSE s0

\* the record after a call that is no tsm_screen_draw
Done_scr(s) == [s EXCEPT !.last = NoOp]

\* what the other variables do in a step of the screen
ScreenOnly == UNCHANGED <<tvars, att, aud, vid, srv, acq, ext, life, pix>>

\* the calls that link lines stop when MaxSbId lines have been linked
MayLink == scr.sb_last_id < MaxSbId

\* tsm_screen_inc_age
tsm_screen_inc_age ==
  /\ scr' = Done_scr(inc_age(scr))
  /\ ScreenOnly

\* tsm_screen_resize on the record: [s, ret]; mem: the allocations succeed
screen_resize(s, x, y, mem) ==
  IF x = 0 \/ y = 0 THEN [s |-> s, ret |-> "EINVAL"]
  ELSE LET s1 == inc_age(s)
       IN IF s1.size_x = x /\ s1.size_y = y THEN [s |-> s1, ret |-> "ok"]
          ELSE IF (y > s1.line_num \/ x > s1.size_x) /\ ~mem
          THEN [s |-> s1, ret |-> "ENOMEM"]
          ELSE LET s2 == [s1 EXCEPT !.line_num = IF y > @ THEN y ELSE @,
                                    !.margin_top = 0,
                                    !.margin_bottom = s1.size_y - 1,
                                    !.size_x = x]
                   s3 == IF s2.cursor_x >= s2.size_x
                         THEN move_cursor(s2, s2.size_x - 1, s2.cursor_y)
                         ELSE s2
                   diff == s3.size_y - y
                   s4 == IF s3.cursor_y # 0 /\ y < s3.size_y
                         THEN LET u == screen_scroll_up(s3, diff, mem)
                              IN IF u.cursor_y > diff
                                 THEN move_cursor(u, u.cursor_x, u.cursor_y - diff)
                                 ELSE move_cursor(u, u.cursor_x, 0)
                         ELSE s3
                   s5 == [s4 EXCEPT !.size_y = y, !.margin_bottom = y - 1]
                   s6 == IF s5.cursor_y >= s5.size_y
                         THEN move_cursor(s5, s5.cursor_x, s5.size_y - 1)
                         ELSE s5
               IN [s |-> s6, ret |-> "ok"]

tsm_screen_resize(x, y, mem) ==
  /\ MayLink
  /\ scr' = Done_scr(screen_resize(scr, x, y, mem).s)
  /\ ScreenOnly

\* a call that takes any top and bottom for the margins
set_margins_unchecked(top, bottom) ==
  /\ scr' = Done_scr([scr EXCEPT !.margin_top = top, !.margin_bottom = bottom])
  /\ ScreenOnly

\* tsm_screen_set_margins
tsm_screen_set_margins(top, bottom) ==
  /\ LET t == IF top = 0 THEN 1 ELSE top
         dflt == bottom <= t \/ bottom > scr.size_y
         upper == IF dflt THEN 0 ELSE t - 1
         lower == IF dflt THEN scr.size_y - 1 ELSE bottom - 1
     IN scr' = Done_scr([scr EXCEPT !.margin_top = upper,
                                    !.margin_bottom = lower])
  /\ ScreenOnly

\* tsm_screen_reset
tsm_screen_reset ==
  /\ scr' = Done_scr([set_age(inc_age(scr)) EXCEPT
                        !.flags = {}, !.margin_top = 0,
                        !.margin_bottom = scr.size_y - 1])
  /\ ScreenOnly

\* tsm_screen_set_flags with one flag
tsm_screen_set_flags(f) ==
  /\ f \notin scr.flags
  /\ LET s1 == inc_age(scr)
         s2 == [s1 EXCEPT !.flags = @ \cup {f}]
     IN scr' = Done_scr(IF f = "ALTERNATE" THEN set_age(s2) ELSE s2)
  /\ ScreenOnly

\* tsm_screen_reset_flags with one flag
tsm_screen_reset_flags(f) ==
  /\ f \in scr.flags
  /\ LET s1 == inc_age(scr)
         s2 == [s1 EXCEPT !.flags = @ \ {f}]
     IN scr' = Done_scr(IF f = "ALTERNATE" THEN set_age(s2) ELSE s2)
  /\ ScreenOnly

\* tsm_screen_write on the record; len: the width of the symbol
screen_putc(s, len, mem) ==
  IF len = 0 THEN s
  ELSE LET s1 == inc_age(s)
           lastrow == IF s1.cursor_y <= s1.margin_bottom
                      \/ s1.cursor_y >= s1.size_y
                   THEN s1.margin_bottom ELSE s1.size_y - 1
           s2 == IF s1.cursor_x >= s1.size_x
                 THEN IF "AUTO_WRAP" \in s1.flags
                      THEN move_cursor(s1, 0, s1.cursor_y + 1)
                      ELSE move_cursor(s1, s1.size_x - 1, s1.cursor_y)
                 ELSE s1
           s3 == IF s2.cursor_y > lastrow
                 THEN screen_scroll_up(move_cursor(s2, s2.cursor_x, lastrow), 1, mem)
                 ELSE s2
       IN move_cursor(s3, s3.cursor_x + len, s3.cursor_y)

tsm_screen_write(len, mem) ==
  /\ MayLink
  /\ scr' = Done_scr(screen_putc(scr, len, mem))
  /\ ScreenOnly

\* tsm_screen_move_down on the record
screen_move_down(s, num, scroll, mem) ==
  IF num = 0 THEN s
  ELSE LET s1 == inc_age(s)
           size == IF s1.cursor_y <= s1.margin_bottom
                   THEN s1.margin_bottom + 1 ELSE s1.size_y
           diff == size - s1.cursor_y - 1
       IN IF num > diff
          THEN move_cursor(IF scroll THEN screen_scroll_up(s1, num - diff, mem)
                           ELSE s1,
                           s1.cursor_x, size - 1)
          ELSE move_cursor(s1, s1.cursor_x, s1.cursor_y + num)

\* tsm_screen_move_down
tsm_screen_move_down(num, scroll, mem) ==
  /\ MayLink
  /\ scr' = Done_scr(screen_move_down(scr, num, scroll, mem))
  /\ ScreenOnly

\* tsm_screen_move_line_home on the record
screen_move_line_home(s) == move_cursor(inc_age(s), 0, s.cursor_y)

tsm_screen_move_line_home ==
  /\ scr' = Done_scr(screen_move_line_home(scr))
  /\ ScreenOnly

\* tsm_screen_newline
tsm_screen_newline(mem) ==
  /\ MayLink
  /\ scr' = Done_scr(screen_move_line_home(
                       screen_move_down(inc_age(scr), 1, TRUE, mem)))
  /\ ScreenOnly

\* tsm_screen_move_up
tsm_screen_move_up(num, scroll) ==
  /\ num # 0
  /\ LET s1 == inc_age(scr)
         size == IF s1.cursor_y >= s1.margin_top THEN s1.margin_top ELSE 0
         diff == s1.cursor_y - size
     IN scr' = Done_scr(
          IF num > diff
          THEN move_cursor(IF scroll THEN screen_scroll_down(s1, num - diff)
                           ELSE s1,
                           s1.cursor_x, size)
          ELSE move_cursor(s1, s1.cursor_x, s1.cursor_y - num))
  /\ ScreenOnly

\* tsm_screen_move_to
tsm_screen_move_to(x, y) ==
  /\ LET s1 == inc_age(scr)
         rel == "REL_ORIGIN" \in s1.flags
         lastrow == IF rel THEN s1.margin_bottom ELSE s1.size_y - 1
         x1 == IF x >= s1.size_x THEN s1.size_x - 1 ELSE x
         y0 == IF rel THEN s1.margin_top + y ELSE y
         y1 == IF y0 > lastrow THEN lastrow ELSE y0
     IN scr' = Done_scr(move_cursor(s1, x1, y1))
  /\ ScreenOnly

\* tsm_screen_move_left
tsm_screen_move_left(num) ==
  /\ num # 0
  /\ LET s1 == inc_age(scr)
         n == Min(num, s1.size_x)
         x == IF s1.cursor_x >= s1.size_x THEN s1.size_x - 1 ELSE s1.cursor_x
     IN scr' = Done_scr(move_cursor(s1, IF n > x THEN 0 ELSE x - n, s1.cursor_y))
  /\ ScreenOnly

\* tsm_screen_move_right
tsm_screen_move_right(num) ==
  /\ num # 0
  /\ LET s1 == inc_age(scr)
         n == Min(num, s1.size_x)
     IN scr' = Done_scr(move_cursor(s1,
                          IF n + s1.cursor_x >= s1.size_x THEN s1.size_x - 1
                          ELSE s1.cursor_x + n,
                          s1.cursor_y))
  /\ ScreenOnly

\* tsm_screen_scroll_up
tsm_screen_scroll_up(num, mem) ==
  /\ MayLink
  /\ num # 0
  /\ scr' = Done_scr(screen_scroll_up(inc_age(scr), num, mem))
  /\ ScreenOnly

\* tsm_screen_scroll_down
tsm_screen_scroll_down(num) ==
  /\ num # 0
  /\ scr' = Done_scr(screen_scroll_down(inc_age(scr), num))
  /\ ScreenOnly

\* tsm_screen_insert_lines: the lines from the cursor to the bottom margin
\* move down, the cursor goes to column 0
tsm_screen_insert_lines(num) ==
  /\ num # 0
  /\ scr.cursor_y >= scr.margin_top
  /\ scr.cursor_y <= scr.margin_bottom
  /\ scr' = Done_scr([set_age(inc_age(scr)) EXCEPT !.cursor_x = 0])
  /\ ScreenOnly

\* tsm_screen_delete_lines: the lines below the cursor move up, the cursor
\* goes to column 0
tsm_screen_delete_lines(num) ==
  /\ num # 0
  /\ ~(scr.cursor_y < scr.margin_top \/ scr.cursor_y > scr.margin_bottom)
  /\ LET s1 == set_age(inc_age(scr))
     IN scr' = Done_scr(move_cursor(s1, 0, s1.cursor_y))
  /\ ScreenOnly

RECURSIVE DropTo(_, _)
\* the loop of tsm_screen_set_max_sb: lines leave the head of the list
\* until no more than max are left
DropTo(s, max) ==
  IF s.sb_count <= max THEN s
  ELSE LET line == s.sb_first
           u == unlink_first(s)
           s1 == [u EXCEPT !.sb_pos = IF s.sb_pos = line THEN u.sb_first ELSE @,
                           !.sel_start = IF s.sel_active
                                         THEN sel_drop(@, line) ELSE @,
                           !.sel_end = IF s.sel_active
                                       THEN sel_drop(@, line) ELSE @]
       IN DropTo(s1, max)

\* a change of the limit that leaves the list as it is
set_max_sb_keep(max) ==
  /\ scr' = Done_scr([set_age(inc_age(scr)) EXCEPT !.sb_max = max])
  /\ ScreenOnly

\* tsm_screen_set_max_sb
tsm_screen_set_max_sb(max) ==
  /\ scr' = Done_scr([DropTo(set_age(inc_age(scr)), max) EXCEPT !.sb_max = max])
  /\ ScreenOnly

RECURSIVE ChainFrom(_, _, _)
\* the lines reached from line over the next pointers, at most n of them
ChainFrom(s, line, n) ==
  IF line = 0 \/ n = 0 THEN <<>>
  ELSE <<line>> \o ChainFrom(s, s.next[line], n - 1)

\* the lines of the scrollback list, oldest first
Chain(s) == ChainFrom(s, s.sb_first, MaxSbId + MaxRows)

Range(q) == {q[i] : i \in 1..Len(q)}

\* a selection end in the scrollback list is set to the top
sel_clear(pos) ==
  IF pos.line # 0 THEN [pos EXCEPT !.line = 0, !.y = SELECTION_TOP] ELSE pos

\* a clear that leaves the position in the list as it is
clear_sb_keep_pos ==
  /\ LET s1 == set_age(inc_age(scr))
     IN scr' = Done_scr([s1 EXCEPT
                  !.freed = @ \cup Range(Chain(s1)),
                  !.evicted = @ \o Chain(s1),
                  !.sb_first = 0, !.sb_last = 0, !.sb_count = 0,
                  !.sel_start = IF s1.sel_active THEN sel_clear(@) ELSE @,
                  !.sel_end = IF s1.sel_active THEN sel_clear(@) ELSE @])
  /\ ScreenOnly

\* tsm_screen_clear_sb
tsm_screen_clear_sb ==
  /\ LET s1 == set_age(inc_age(scr))
     IN scr' = Done_scr([s1 EXCEPT
                  !.freed = @ \cup Range(Chain(s1)),
                  !.evicted = @ \o Chain(s1),
                  !.sb_first = 0, !.sb_last = 0, !.sb_count = 0,
                  !.sb_pos = 0,
                  !.sel_start = IF s1.sel_active THEN sel_clear(@) ELSE @,
                  !.sel_end = IF s1.sel_active THEN sel_clear(@) ELSE @])
  /\ ScreenOnly

RECURSIVE SbUp(_, _)
\* the loop of tsm_screen_sb_up
SbUp(s, num) ==
  IF num = 0 THEN s
  ELSE IF s.sb_pos # 0
  THEN IF s.prev[s.sb_pos] = 0 THEN s
       ELSE SbUp([s EXCEPT !.sb_pos = s.prev[s.sb_pos]], num - 1)
  ELSE IF s.sb_last = 0 THEN s
  ELSE SbUp([s EXCEPT !.sb_pos = s.sb_last], num - 1)

\* tsm_screen_sb_up
tsm_screen_sb_up(num) ==
  /\ num # 0
  /\ scr' = Done_scr(SbUp(set_age(inc_age(scr)), num))
  /\ ScreenOnly

RECURSIVE SbDown(_, _)
\* the loop of tsm_screen_sb_down
SbDown(s, num) ==
  IF num = 0 \/ s.sb_pos = 0 THEN s
  ELSE SbDown([s EXCEPT !.sb_pos = s.next[s.sb_pos]], num - 1)

\* tsm_screen_sb_down
tsm_screen_sb_down(num) ==
  /\ num # 0
  /\ scr' = Done_scr(SbDown(set_age(inc_age(scr)), num))
  /\ ScreenOnly

\* tsm_screen_sb_reset
tsm_screen_sb_reset ==
  /\ scr.sb_pos # 0
  /\ scr' = Done_scr([set_age(inc_age(scr)) EXCEPT !.sb_pos = 0])
  /\ ScreenOnly

RECURSIVE SelWalk(_, _, _)
\* while (y && pos) { --y; pos = pos->next; }: [pos, y]
SelWalk(s, pos, y) ==
  IF y # 0 /\ pos # 0 THEN SelWalk(s, s.next[pos], y - 1)
  ELSE [pos |-> pos, y |-> y]

\* selection_set
selection_set(s, x, y) ==
  LET w == SelWalk(s, s.sb_pos, y)
  IN [line |-> w.pos, x |-> x, y |-> w.y]

\* tsm_screen_selection_reset
tsm_screen_selection_reset ==
  /\ scr.sel_active
  /\ scr' = Done_scr([set_age(inc_age(scr)) EXCEPT !.sel_active = FALSE])
  /\ ScreenOnly

\* tsm_screen_selection_start
tsm_screen_selection_start(posx, posy) ==
  /\ LET s1 == set_age(inc_age(scr))
         sel == selection_set(s1, posx, posy)
     IN scr' = Done_scr([s1 EXCEPT !.sel_active = TRUE, !.sel_start = sel,
                                   !.sel_end = sel])
  /\ ScreenOnly

\* tsm_screen_selection_target
tsm_screen_selection_target(posx, posy) ==
  /\ scr.sel_active
  /\ LET s1 == set_age(inc_age(scr))
     IN scr' = Done_scr([s1 EXCEPT !.sel_end = selection_set(s1, posx, posy)])
  /\ ScreenOnly

Max(a, b) == IF a > b THEN a ELSE b

\* a draw that leaves the reset flag as it is
draw_keep_reset(cellage) ==
  /\ scr' = [scr EXCEPT
               !.last = [op |-> "draw",
                         ret |-> IF scr.age_reset THEN 0 ELSE scr.age_cnt,
                         ages |-> IF scr.age_reset THEN {0}
                                  ELSE {Max(cellage, scr.age)}]]
  /\ ScreenOnly

\* tsm_screen_draw.  cellage: the larger of the age of a cell and of its
\* line, which are not kept in the record; ages: the ages handed to the
\* draw callback
tsm_screen_draw(cellage) ==
  /\ scr' = [scr EXCEPT
               !.age_reset = FALSE,
               !.last = [op |-> "draw",
                         ret |-> IF scr.age_reset THEN 0 ELSE scr.age_cnt,
                         ages |-> IF scr.age_reset THEN {0}
                                  ELSE {Max(cellage, scr.age)}]]
  /\ ScreenOnly

\* the arguments of the calls
ScrNums == 1..MaxRows
ScrTops == 0..(MaxRows + 1)
ScrLens == 1..2

ScrResize == \E x \in 0..MaxCols, y \in 0..MaxRows, mem \in BOOLEAN :
               tsm_screen_resize(x, y, mem)
ScrSetMargins == \E top \in 0..MaxRows, bottom \in ScrTops :
                   tsm_screen_set_margins(top, bottom)
ScrSetFlags == \E f \in CursorFlags : tsm_screen_set_flags(f)
ScrResetFlags == \E f \in CursorFlags : tsm_screen_reset_flags(f)
ScrWrite == \E len \in ScrLens, mem \in BOOLEAN : tsm_screen_write(len, mem)
ScrNewline == \E mem \in BOOLEAN : tsm_screen_newline(mem)
ScrMoveDown == \E num \in ScrNums, scroll \in BOOLEAN, mem \in BOOLEAN :
                 tsm_screen_move_down(num, scroll, mem)
ScrMoveUp == \E num \in ScrNums, scroll \in BOOLEAN :
               tsm_screen_move_up(num, scroll)
ScrMoveTo == \E x \in 0..MaxCols, y \in 0..MaxRows : tsm_screen_move_to(x, y)
ScrMoveLeft == \E num \in ScrLens : tsm_screen_move_left(num)
ScrMoveRight == \E num \in ScrLens : tsm_screen_move_right(num)
ScrScrollUp == \E num \in ScrNums, mem \in BOOLEAN :
                 tsm_screen_scroll_up(num, mem)
ScrScrollDown == \E num \in ScrNums : tsm_screen_scroll_down(num)
ScrInsertLines == \E num \in ScrNums : tsm_screen_insert_lines(num)
ScrDeleteLines == \E num \in ScrNums : tsm_screen_delete_lines(num)
ScrSetMaxSb == \E max \in 0..MaxSb : tsm_screen_set_max_sb(max)
ScrSbUp == \E num \in 1..MaxSb : tsm_screen_sb_up(num)
ScrSbDown == \E num \in 1..MaxSb : tsm_screen_sb_down(num)
ScrSelStart == \E y \in 0..1 : tsm_screen_selection_start(0, y)
ScrSelTarget == tsm_screen_selection_target(0, 0)
ScrFixedPos == \/ tsm_screen_set_flags("FIXED_POS")
               \/ tsm_screen_reset_flags("FIXED_POS")
ScrAutoWrap == \/ tsm_screen_set_flags("AUTO_WRAP")
               \/ tsm_screen_reset_flags("AUTO_WRAP")
ScrPush == \E num \in ScrLens, mem \in BOOLEAN : tsm_screen_scroll_up(num, mem)
ScrResizeRows == \E y \in 0..MaxRows, mem \in BOOLEAN :
                   tsm_screen_resize(scr.size_x, y, mem)
ScrWriteOne == \E mem \in BOOLEAN : tsm_screen_write(1, mem)
ScrDraw == \E cellage \in 0..(AgeWrap - 1) : tsm_screen_draw(cellage)

\* the calls that place the cursor, the margins and the size
NextGeom ==
  \/ ScrResize
  \/ ScrSetMargins
  \/ tsm_screen_reset
  \/ ScrSetFlags
  \/ ScrResetFlags
  \/ ScrWrite
  \/ ScrNewline
  \/ ScrMoveDown
  \/ ScrMoveUp
  \/ ScrMoveTo
  \/ ScrMoveLeft
  \/ ScrMoveRight
  \/ tsm_screen_move_line_home
  \/ ScrScrollUp
  \/ ScrScrollDown
  \/ ScrInsertLines
  \/ ScrDeleteLines

SpecGeom == InitScreen /\ [][NextGeom]_vars

\* the calls that fill and trim the scrollback list
NextScrollback ==
  \/ ScrPush
  \/ ScrWriteOne
  \/ ScrNewline
  \/ ScrResizeRows
  \/ ScrSetMaxSb
  \/ tsm_screen_clear_sb
  \/ ScrAutoWrap

SpecScrollback == InitScreen /\ [][NextScrollback]_vars

\* the calls that remove lines of the scrollback list, and the calls that
\* point into it
NextSbRefs ==
  \/ ScrPush
  \/ ScrSetMaxSb
  \/ tsm_screen_clear_sb
  \/ ScrSbUp
  \/ ScrSbDown
  \/ tsm_screen_sb_reset
  \/ ScrSelStart
  \/ ScrSelTarget
  \/ tsm_screen_selection_reset
  \/ ScrFixedPos

SpecSbRefs == InitScreen /\ [][NextSbRefs]_vars

\* the calls that age the screen, and the draw
NextAge ==
  \/ tsm_screen_inc_age
  \/ ScrMoveTo
  \/ ScrSetMargins
  \/ tsm_screen_reset
  \/ ScrDraw

SpecAge == InitScreen /\ [][NextAge]_vars

\* C39: after every completed call the margins are ordered and inside the
\* screen, and the cursor is on a row of the screen:
\* margin_top <= margin_bottom < size_y and cursor_y < size_y (the fields
\* are unsigned: none is below 0)
C39_GeometryInvariant ==
  /\ 0 <= scr.margin_top
  /\ scr.margin_top <= scr.margin_bottom
  /\ scr.margin_bottom < scr.size_y
  /\ 0 <= scr.cursor_y
  /\ scr.cursor_y < scr.size_y

\* a narrowed screen with margins set below the top, the cursor on the
\* bottom margin, past the last column after a write
C39_Witness ==
  /\ scr.size_x < MaxCols
  /\ scr.margin_top > 0
  /\ scr.cursor_y = scr.margin_bottom
  /\ scr.cursor_x >= scr.size_x

\* the ids 1..n in order
SbRun(n) == [i \in 1..n |-> i]

\* C38: sb_count is the number of lines linked from sb_first to sb_last
\* and is never above sb_max; the lines leave the list in the order they
\* came (the removed lines followed by the linked ones are the ids in
\* order, so a push into a full list removes the oldest); with sb_max = 0
\* the list is empty
C38_BoundedFifo ==
  /\ scr.sb_count = Len(Chain(scr))
  /\ scr.sb_count <= scr.sb_max
  /\ (scr.sb_first = 0) <=> (scr.sb_last = 0)
  /\ scr.sb_count > 0 => /\ Chain(scr)[scr.sb_count] = scr.sb_last
                         /\ scr.next[scr.sb_last] = 0
                         /\ scr.prev[scr.sb_first] = 0
  /\ scr.evicted \o Chain(scr) = SbRun(scr.sb_last_id)
  /\ scr.sb_max = 0 => (scr.sb_count = 0 /\ scr.sb_first = 0)

\* a full list of two lines after the oldest line has left it
C38_Witness ==
  /\ scr.sb_max = 2
  /\ scr.evicted = <<1>>
  /\ Chain(scr) = <<2, 3>>

\* the lines of the scrollback list
Linked == Range(Chain(scr))

\* C40: sb_pos and, while the selection is active, both ends of the
\* selection are NULL or a line of the scrollback list, never a freed line
C40_NoDanglingReferences ==
  /\ Linked \cap scr.freed = {}
  /\ scr.sb_pos \in {0} \cup Linked
  /\ scr.sb_pos \notin scr.freed
  /\ scr.sel_active =>
       /\ scr.sel_start.line \in {0} \cup Linked
       /\ scr.sel_end.line \in {0} \cup Linked
       /\ scr.sel_start.line \notin scr.freed
       /\ scr.sel_end.line \notin scr.freed

\* lines have been freed, one end of the active selection was on one of
\* them and is at the top now, the other end and sb_pos are on linked lines
C40_Witness ==
  /\ scr.freed # {}
  /\ scr.sel_active
  /\ scr.sel_start.line = 0
  /\ scr.sel_start.y = SELECTION_TOP
  /\ scr.sel_end.line # 0
  /\ scr.sb_pos # 0

\* C37: the age counter is never 0; a step in which it wraps sets the
\* reset flag, the flag stays until a draw, the draw under the flag hands
\* age 0 for every cell, returns 0 and clears the flag, and a draw without
\* the flag returns the age counter, which is not 0
C37_AgeCounter ==
  /\ [](scr.age_cnt # 0)
  /\ [][/\ scr'.age_cnt < scr.age_cnt => scr'.age_reset
        /\ (scr.age_reset /\ scr'.last.op # "draw") => scr'.age_reset
        /\ (scr.age_reset /\ scr'.last.op = "draw") =>
             /\ scr'.last.ret = 0
             /\ scr'.last.ages = {0}
             /\ ~scr'.age_reset
        /\ (~scr.age_reset /\ scr'.last.op = "draw") =>
             /\ scr'.last.ret = scr.age_cnt
             /\ scr'.last.ret # 0
             /\ ~scr'.age_reset]_vars

\* a draw that returned 0 after a wrap, with the flag cleared
C37_Witness ==
  /\ scr.last.op = "draw"
  /\ scr.last.ret = 0
  /\ scr.last.ages = {0}
  /\ ~scr.age_reset

====
